---- MODULE Spec2Model ----
(***************************************************************************)
(* A model of gravwell/cloudarchive: the upload tracker, the local         *)
(* filesystem backend (UnpackShard / PackShard), the shard packer pipeline,*)
(* the tag manager and its registry, and the idle watchdog of the shard    *)
(* push handler.  Each subsystem has its own specification; a              *)
(* specification leaves the variables of the other subsystems unchanged.   *)
(***************************************************************************)
EXTENDS Integers, Sequences, FiniteSets, TLC

(***************************************************************************)
(* Bounds of the model.                                                    *)
(***************************************************************************)
\* concurrent backend calls (HTTP handlers in flight)
NCalls == 2
\* the collision loop of UnpackShard runs i = 1 .. SuffixLimit-1; the code's
\* limit is 10000 (src/unnamed/part_005:172), scaled down here
SuffixLimit == 3
\* file entries carried by one pushed stream
NEntries == 2
\* files AddShardFilesToPacker adds to the packer in one PackShard
PackFiles == 2
\* longest list handed to ImportTags, Merge or ResetOverride
MaxList == 2
\* calls that would move nextTag past this value are left out
MaxNextTag == 3
\* most handles of one (customer, indexer) key outstanding at a time
MaxHandles == 2
NGoroutines == 2
\* pieces of request body the client of a push has to send
PushChunks == 2
\* shard names 0 .. MaxShard can be entries of the well
MaxShard == 1
\* FTP connections that may stay open after the operation that dialed them
MaxConns == 2
\* entries of a stream that did not come from a Packer
MaxStream == 3

(***************************************************************************)
(* Program constants.                                                      *)
(***************************************************************************)
DefaultTagId == 0
GravwellTagId == 65535
ShardSet == 131071
shardMaskBitCount == 17

VARIABLES
    active,     \* UploadTracker.active: the set of upload ids in progress
    fs,         \* the well directory: shard directory name -> its state
    calls,      \* per backend call: operation, arguments, position, locals
    sealed,     \* history: directories whose creating push has returned nil
    pk,         \* one PackShard pipeline: the packer, its pipe and the three tasks
    tm,         \* one TagMan: its maps, nextTag, tags.dat, and the last call made
    reg,        \* the registry of tag managers (tagSets) and its instances
    ph,         \* one shard push: the handler, its idle watchdog, the client
    cd,         \* one Packer piped into one Unpacker
    wb,         \* one request to the webserver
    mx,         \* goroutines calling one tag manager
    cl,         \* one Client.PushShard: the call, its two tasks, the pipe
    pt,         \* one Packer being closed: CloseWithTimeout, its timer, a later Close
    fb,         \* the FTP backend: tags.dat on the server and in the local store
    sh,         \* one well directory and the last timeframe query on it
    si,         \* one instant, its shard id, the shard's name and the name's range
    lk,         \* one file, its open handles, and the record lock each process holds
    au,         \* one Client: its login state, its session and its last request
    fc,         \* the FTP backend's operations in flight and the connections open
    us,         \* one UnpackShard of the local backend and the indexer's tag dictionary
    pa          \* one UnpackShard of the local backend and the paths it touches

bvars == <<active, fs, calls, sealed>>

\* the variables of the specifications further down
nvars == <<lk, au, fc, us, pa>>
ovars == <<cl, pt, fb, sh, si, nvars>>

vars == <<active, fs, calls, sealed, pk, tm, reg, ph, cd, wb, mx, ovars>>

(***************************************************************************)
(* Backend: names and the filesystem.                                      *)
(* A directory name is a sequence of dot-separated components, so that     *)
(* fmt.Sprintf("%s.%d", base, i) is Append(base, i).                       *)
(***************************************************************************)
Procs == 1..NCalls

Suffixes == 1..(SuffixLimit - 1)

BaseName == <<"769f2">>

Suffixed(base, i) == Append(base, i)

\* the shard names a client sends: the plain name and a dotted one
ShardNames == {BaseName, Suffixed(BaseName, 1)}

Dirs ==
    {BaseName} \cup {Suffixed(BaseName, i) : i \in Suffixes}
      \cup {Suffixed(Suffixed(BaseName, i), j) : i \in Suffixes, j \in Suffixes}

\* the directories sequential pushes of BaseName create, in order
Chain(k) == IF k = 0 THEN BaseName ELSE Suffixed(BaseName, k)

Entries == 1..NEntries

\* a directory that does not exist
NoDir == [ex |-> FALSE, f |-> [e \in Entries |-> -1]]

\* a complete shard directory left by an earlier push (content 0)
OldDir == [ex |-> TRUE, f |-> [e \in Entries |-> 0]]

\* os.MkdirAll on a directory: creates it empty, or leaves an existing one
MkdirAll(d) == IF d.ex THEN d ELSE [ex |-> TRUE, f |-> [e \in Entries |-> -1]]

\* handler.HandleFile: os.Create + io.Copy of entry e, content of call p
WriteFile(d, e, p) == [d EXCEPT !.f[e] = p]

IdleCall == [op |-> "none", shard |-> BaseName, pc |-> "idle",
             dir |-> BaseName, i |-> 0, n |-> 0, err |-> ""]

(***************************************************************************)
(* The PackShard pipeline: state after NewPacker and the two go statements.*)
(***************************************************************************)
PkInit ==
    [lock |-> "free",       \* Packer.Mutex: free, or the task holding it
     pipe |-> "open",       \* io.Pipe: open, weof (Close), werr (CloseWithError)
     pend |-> FALSE,        \* a pipe Write is blocked, waiting for a Read
     cancelled |-> FALSE,   \* p.cf() was called
     add |-> "add",         \* position of the file adding task
     nf |-> 0,              \* files added so far
     aerr |-> FALSE,        \* the file adding task's error
     copy |-> "read",       \* position of the io.Copy task
     cerr |-> FALSE,        \* the copy task's error
     chA |-> "empty",       \* addFilesErrChan: empty, nil, err, taken
     chC |-> "empty",       \* copyErrChan
     orch |-> "select",     \* position of PackShard itself
     err |-> FALSE]         \* PackShard's err

(***************************************************************************)
(* Tag manager (TagMan): the dictionary is the record                      *)
(*   tags (name -> id), tagKeys (id -> name), nextTag, file (the lines of  *)
(*   tags.dat), active.                                                    *)
(* Every operation is an operator from the dictionary and its arguments to *)
(* the dictionary after the call and the error it returns.  Writes to the  *)
(* file are taken to succeed.                                              *)
(***************************************************************************)
TagPair(n, v) == [Name |-> n, Value |-> v]

\* StaticTagPairs
StaticTagPairs == <<TagPair("default", DefaultTagId), TagPair("gravwell", GravwellTagId)>>

\* m[k] = v on a Go map
Put(m, k, v) == (k :> v) @@ m

Has(m, k) == k \in DOMAIN m

\* strings.TrimSpace on the names of the model
TrimSpace(n) == IF n = " a" THEN "a" ELSE n

\* ingest.CheckTag: nil for a non-empty name without forbidden characters
CheckTag(n) == n \notin {"", "a b", " a"}

\* New on a path with no file: the two reserved lines, then loadTags
TmNew ==
    [tags |-> ("default" :> DefaultTagId) @@ ("gravwell" :> GravwellTagId),
     tagKeys |-> (DefaultTagId :> "default") @@ (GravwellTagId :> "gravwell"),
     nextTag |-> 1,
     file |-> StaticTagPairs,
     active |-> TRUE]

\* the last call: err is an error returned, na is ErrNotActive returned
NoCall == [op |-> "New", conflict |-> FALSE, err |-> FALSE, na |-> FALSE]

\* ok: no call has returned an error since New
TmInit == [d |-> TmNew, last |-> NoCall, ok |-> TRUE]

\* findNextAvailableTag: the first id in [1, 0xfffe] that is not a key; the
\* first free id is never above the number of keys plus one
FindNextAvailableTag(keys) ==
    LET cand == {i \in 1..(Cardinality(DOMAIN keys) + 1) :
                    i \notin DOMAIN keys /\ i < GravwellTagId}
    IN IF cand = {} THEN [tag |-> 0, err |-> TRUE]
       ELSE [tag |-> CHOOSE i \in cand : \A j \in cand : i <= j, err |-> FALSE]

\* allocateTag
AllocateTag(d, name) ==
    IF ~CheckTag(name) THEN [d |-> d, err |-> TRUE]
    ELSE IF ~d.active THEN [d |-> d, err |-> TRUE]    \* Seek on the nil fout
    ELSE LET occupied == Has(d.tagKeys, d.nextTag)
             fn == FindNextAvailableTag(d.tagKeys)
             nt == IF occupied THEN fn.tag ELSE d.nextTag
         IN IF occupied /\ fn.err
            THEN [d |-> [d EXCEPT !.nextTag = 0], err |-> TRUE]
            ELSE IF ~Has(d.tagKeys, nt)
            THEN [d |-> [d EXCEPT !.tagKeys = Put(@, nt, name),
                                  !.tags = Put(@, name, nt),
                                  !.file = Append(@, TagPair(name, nt)),
                                  !.nextTag = (nt + 1) % 65536],
                  err |-> FALSE]
            ELSE [d |-> [d EXCEPT !.nextTag = nt], err |-> TRUE]

\* an assignTag that returns nil and stores nothing
AssignTagForgets(d, name, value) == [d |-> d, err |-> ~CheckTag(name)]

\* assignTag
AssignTag(d, name, value) ==
    IF ~CheckTag(name) THEN [d |-> d, err |-> TRUE]
    ELSE IF ~d.active THEN [d |-> d, err |-> TRUE]    \* Seek on the nil fout
    ELSE [d |-> [d EXCEPT !.tagKeys = Put(@, value, name),
                          !.tags = Put(@, name, value),
                          !.file = Append(@, TagPair(name, value))],
          err |-> FALSE]

\* getAndPopulateNoLock
GetAndPopulateNoLock(d, name) ==
    IF Has(d.tags, name) THEN [d |-> d, err |-> FALSE] ELSE AllocateTag(d, name)

\* AddTag
AddTagRes(d, raw) ==
    LET name == TrimSpace(raw) IN
    IF ~d.active THEN [d |-> d, err |-> TRUE, na |-> TRUE]
    ELSE IF Has(d.tags, name) THEN [d |-> d, err |-> TRUE]
    ELSE AllocateTag(d, name)

\* GetAndPopulate
GetAndPopulateRes(d, raw) ==
    IF ~d.active THEN [d |-> d, err |-> TRUE, na |-> TRUE]
    ELSE GetAndPopulateNoLock(d, TrimSpace(raw))

\* ImportTags: the loop over tgs, from index i
RECURSIVE ImportLoop(_, _, _)
ImportLoop(d, tgs, i) ==
    IF i > Len(tgs) THEN [d |-> d, err |-> FALSE]
    ELSE LET r == GetAndPopulateNoLock(d, TrimSpace(tgs[i]))
         IN IF r.err THEN r ELSE ImportLoop(r.d, tgs, i + 1)

ImportTagsRes(d, tgs) == ImportLoop(d, tgs, 1)

\* ensureTag
EnsureTagRes(d, id, name) ==
    LET nameOk == Has(d.tagKeys, id)
        idOk == Has(d.tags, name)
        tagName == IF nameOk THEN d.tagKeys[id] ELSE ""
        tagId == IF idOk THEN d.tags[name] ELSE 0
    IN IF ~nameOk /\ ~idOk
       THEN [d |-> [d EXCEPT !.tagKeys = Put(@, id, name), !.tags = Put(@, name, id)],
             err |-> FALSE]
       ELSE [d |-> d, err |-> (id # tagId \/ name # tagName)]

\* GetTag, ReverseLookup, TagSet, Count: the active test, then a read
ReadRes(d, op, arg) ==
    IF ~d.active THEN [d |-> d, err |-> TRUE, na |-> TRUE]
    ELSE [d |-> d,
          err |-> \/ op = "GetTag" /\ ~Has(d.tags, TrimSpace(arg))
                  \/ op = "ReverseLookup" /\ ~Has(d.tagKeys, arg)]

\* GetTagSubmap: ReverseLookup of each id, from index i
RECURSIVE GetTagSubmapRes(_, _, _)
GetTagSubmapRes(d, ids, i) ==
    IF i > Len(ids) THEN [d |-> d, err |-> FALSE]
    ELSE LET r == ReadRes(d, "ReverseLookup", ids[i])
         IN IF r.err THEN r ELSE GetTagSubmapRes(d, ids, i + 1)

\* Close: the instance is inactive and fout is nil
CloseRes(d) == [d |-> [d EXCEPT !.active = FALSE], err |-> FALSE]

\* the line written by Fprintf("%s=%d\n") for the pair v, read by parseLine:
\* the name is trimmed, an empty name is a malformed line
ParseLine(v) == [Name |-> TrimSpace(v.Name), Value |-> v.Value, err |-> v.Name = ""]

\* loadTags: the loop over the lines of the file, from line i
RECURSIVE LoadLoop(_, _, _)
LoadLoop(d, file, i) ==
    IF i > Len(file) THEN [d |-> d, err |-> FALSE]
    ELSE LET l == ParseLine(file[i])
         IN IF \/ l.err
               \/ (l.Value # DefaultTagId) # (l.Name # "default")
               \/ (l.Value # GravwellTagId) # (l.Name # "gravwell")
               \/ Has(d.tagKeys, l.Value)
               \/ Has(d.tags, l.Name)
            THEN [d |-> d, err |-> TRUE]
            ELSE LoadLoop([d EXCEPT !.tagKeys = Put(@, l.Value, l.Name),
                                    !.tags = Put(@, l.Name, l.Value)], file, i + 1)

\* New on the path of an existing file: empty maps, then loadTags
NewRes(file) ==
    LET l == LoadLoop([tags |-> <<>>, tagKeys |-> <<>>, nextTag |-> 0,
                       file |-> file, active |-> TRUE], file, 1)
        e1 == EnsureTagRes(l.d, DefaultTagId, "default")
        e2 == EnsureTagRes(e1.d, GravwellTagId, "gravwell")
        fn == FindNextAvailableTag(e2.d.tagKeys)
    IN IF l.err THEN l
       ELSE IF e1.err \/ e2.err \/ fn.err THEN [d |-> e2.d, err |-> TRUE]
       ELSE [d |-> [e2.d EXCEPT !.nextTag = fn.tag], err |-> FALSE]

\* a checkTagSet that passes every list
CheckTagSetNever(s) == FALSE

\* checkTagSet: TRUE when it returns an error
CheckTagSetErr(s) ==
    \E i \in 1..Len(s) :
        \/ s[i].Name = "default" /\ s[i].Value # DefaultTagId
        \/ s[i].Name = "gravwell" /\ s[i].Value # GravwellTagId

\* Merge: the loop over s, from index i
RECURSIVE MergeLoop(_, _, _, _)
MergeLoop(d, s, i, updated) ==
    IF i > Len(s) THEN [d |-> d, err |-> FALSE, updated |-> updated]
    ELSE LET v == s[i]
             keyHit == Has(d.tagKeys, v.Value)
             nameHit == Has(d.tags, v.Name)
         IN IF keyHit /\ d.tagKeys[v.Value] # v.Name
            THEN [d |-> d, err |-> TRUE, updated |-> updated]
            ELSE IF nameHit /\ d.tags[v.Name] # v.Value
            THEN [d |-> d, err |-> TRUE, updated |-> updated]
            ELSE IF keyHit \/ nameHit
            THEN MergeLoop(d, s, i + 1, updated)
            ELSE LET r == AssignTag(d, v.Name, v.Value)
                 IN IF r.err THEN [d |-> r.d, err |-> TRUE, updated |-> updated]
                    ELSE MergeLoop(r.d, s, i + 1, TRUE)

\* a Merge that never reports an update
MergeResNoFlag(d, s) ==
    IF CheckTagSetErr(s) \/ ~d.active THEN [d |-> d, err |-> TRUE, updated |-> FALSE]
    ELSE [MergeLoop(d, s, 1, FALSE) EXCEPT !.updated = FALSE]

\* Merge
MergeRes(d, s) ==
    IF CheckTagSetErr(s) THEN [d |-> d, err |-> TRUE, updated |-> FALSE]
    ELSE IF ~d.active THEN [d |-> d, err |-> TRUE, updated |-> FALSE, na |-> TRUE]
    ELSE MergeLoop(d, s, 1, FALSE)

\* ResetOverride: the loop that pushes the pairs of s, from index i
RECURSIVE ResetLoop(_, _, _)
ResetLoop(d, s, i) ==
    IF i > Len(s) THEN d
    ELSE LET v == s[i] IN
         IF v.Value = DefaultTagId \/ v.Value = GravwellTagId
         THEN ResetLoop(d, s, i + 1)
         ELSE ResetLoop([d EXCEPT !.tags = Put(@, v.Name, v.Value),
                                  !.tagKeys = Put(@, v.Value, v.Name),
                                  !.file = Append(@, v)], s, i + 1)

\* ResetOverride
ResetOverrideRes(d, s) ==
    IF CheckTagSetErr(s) THEN [d |-> d, err |-> TRUE]
    ELSE IF ~d.active THEN [d |-> d, err |-> TRUE, na |-> TRUE]
    ELSE [d |-> ResetLoop([d EXCEPT !.tags = TmNew.tags, !.tagKeys = TmNew.tagKeys,
                                    !.file = StaticTagPairs], s, 1),
          err |-> FALSE]

(***************************************************************************)
(* Registry of tag managers (package tags, manager.go).                    *)
(*   closed: tagSets is nil;  sets: tagSets (key -> handles);              *)
(*   open: the TagMan made for the key is active and holds its file lock;  *)
(*   out: successful GetTagMan calls minus successful ReleaseTagMan calls; *)
(*   last: the last call and whether it returned an error.                 *)
(***************************************************************************)
RegKeys == {"k1", "k2", "k3"}

RegInit ==
    [closed |-> FALSE,
     sets |-> <<>>,
     open |-> [k \in RegKeys |-> FALSE],
     out |-> [k \in RegKeys |-> 0],
     last |-> [op |-> "init", key |-> "", err |-> FALSE]]

\* v.handles of the entry of k, 0 when there is none
Handles(k) == IF ~reg.closed /\ Has(reg.sets, k) THEN reg.sets[k] ELSE 0

\* delete(tagSets, k)
Delete(m, k) == [x \in DOMAIN m \ {k} |-> m[x]]

(***************************************************************************)
(* Shard push with its idle watchdog (shardPushHandler, rateTimeoutReader).*)
(*   pc: where the handler is;  client: what the client does;              *)
(*   sent: pieces sent;  avail: pieces received and not yet read;          *)
(*   armed: the timer is pending;  cb: the timer's callback is between     *)
(*   setting rtr.err and the Hijack;  rerr: rtr.err is set;                *)
(*   conn: the connection;  dir: the shard directory exists;               *)
(*   err: the error UnpackShard returned ("" is nil).                      *)
(***************************************************************************)
PhInit ==
    [pc |-> "idle", client |-> "sending", sent |-> 0, avail |-> 0,
     armed |-> FALSE, cb |-> "idle", rerr |-> FALSE, conn |-> "open",
     dir |-> FALSE, err |-> ""]

\* the connection after the callback left it alone
HijackNoClose(conn) == conn

\* rateTimeoutReader.timeout: hj.Hijack() and conn.Close()
HijackAndClose(conn) == "closed"

(***************************************************************************)
(* Shard codec (package shardpacker): file types, entry names, ftracker.   *)
(* A name or path is a sequence of pieces: id + ".store" is the id         *)
(* followed by ".store".                                                   *)
(***************************************************************************)
\* the Ftype values, in the order the callers add them to a packer
AddOrder == <<"tagsupdate", "tags", "verify", "index", "store", "accel", "keys", "data">>

Ftypes == {AddOrder[i] : i \in DOMAIN AddOrder}

OrderOf(tp) == CHOOSE i \in DOMAIN AddOrder : AddOrder[i] = tp

\* trimVersion: the name without its last dotted piece
TrimVersion(id) == IF Len(id) > 1 THEN SubSeq(id, 1, Len(id) - 1) ELSE id

\* Ftype.Filename: the name of the entry in the stream (<<>> is ``)
Filename(ft, id) ==
    CASE ft = "tagsupdate" -> <<"tagsupdate">>
      [] ft = "tags" -> <<"tags">>
      [] ft = "store" -> Append(id, ".store")
      [] ft = "index" -> Append(id, ".index")
      [] ft = "verify" -> Append(id, ".verify")
      [] ft = "accel" -> Append(id, ".accel")
      [] ft = "keys" -> <<"keys">>
      [] ft = "data" -> <<"data">>
      [] OTHER -> <<>>

\* an unpacker that places every entry under its stream name
FilepathFlat(ft, id) == Filename(ft, id)

\* Ftype.Filepath: the place of the file in the shard directory
Filepath(ft, id) ==
    CASE ft = "keys" -> Append(Filename("accel", id), "/keys")
      [] ft = "data" -> Append(Filename("accel", id), "/data")
      [] OTHER -> Filename(ft, id)

\* FilenameToType ("" is ErrInvalidFileType)
FilenameToType(name) ==
    IF name \in {<<"keys">>, <<"data">>, <<"tagsupdate">>, <<"tags">>} THEN name[1]
    ELSE IF name = <<>> THEN ""
    ELSE CASE name[Len(name)] = ".store" -> "store"
           [] name[Len(name)] = ".index" -> "index"
           [] name[Len(name)] = ".verify" -> "verify"
           [] name[Len(name)] = ".accel" -> "accel"
           [] OTHER -> ""

\* the bytes of the file of type ft
Content(ft) == <<ft, "bytes">>

\* a hitType that lets the accelerator forms mix
HitTypeErrLoose(hit, tp) == tp \notin Ftypes \/ tp \in hit

\* ftracker.hitType: TRUE when it returns an error
HitTypeErr(hit, tp) ==
    CASE tp = "accel" -> hit \cap {"accel", "keys", "data"} # {}
      [] tp = "keys" -> hit \cap {"accel", "keys"} # {}
      [] tp = "data" -> hit \cap {"accel", "data"} # {}
      [] tp \in Ftypes -> tp \in hit
      [] OTHER -> TRUE

\* ftracker.hitType: the flags after the call (set also when it fails)
HitTypeSet(hit, tp) == IF tp \in Ftypes THEN hit \cup {tp} ELSE hit

\* an allFilesHit that asks for nothing but matching accelerator halves
AllFilesHitNoStore(hit, strict) == ("keys" \in hit) # ("data" \in hit)

\* ftracker.allFilesHit: TRUE when it returns an error
AllFilesHitErr(hit, strict) ==
    IF "store" \notin hit THEN TRUE
    ELSE IF strict /\ {"tagsupdate", "tags", "index", "verify"} \ hit # {} THEN TRUE
    ELSE ("keys" \in hit) # ("data" \in hit)

\* NewPacker(id) piped into NewUnpacker(id, p)
CdInit(id) ==
    [id |-> id,           \* the id given to both
     hit |-> {},          \* the packer's ftracker
     out |-> <<>>,        \* the entries written to the packer, [name, data]
     pipe |-> "open",     \* the packer's pipe: open, weof, werr
     closed |-> "",       \* the call that ended the packer: Close, CloseWithError
     last |-> [tp |-> "", err |-> FALSE],   \* the last add on the packer
     uid |-> TrimVersion(id),               \* Unpacker.id
     uhit |-> {},         \* the unpacker's ftracker
     pos |-> 0,           \* entries the unpacker has read
     got |-> <<>>,        \* the calls of HandleFile, [path, data]
     ntags |-> 0,         \* the calls of HandleTagUpdate
     ures |-> "running"]  \* Unpack: running, ok, err

(***************************************************************************)
(* Webserver: tokens, requests, the checks in front of the backend.        *)
(***************************************************************************)
\* the customer numbers of the model
Cids == {1, 2}

\* what a request may carry as Authorization header: nothing, a value that
\* is not "Bearer <word>", or a bearer word that is or is not a JWT, signed
\* with some method and key, whose CustomerNumber claim is absent, a
\* string, or the number num
Tokens ==
    [hdr : {"", "Basic", "Bearer"}, jwt : BOOLEAN, alg : {"HS256", "RS256"},
     key : {"hmacSecret", "other"}, claim : {"absent", "string", "number"}, num : Cids]

\* getJWTToken: TRUE when it returns an error
GetJWTTokenErr(tok) == tok.hdr # "Bearer"

\* a decodeJWTToken whose key function accepts every signing method
DecodeJWTTokenAnyAlg(tok) ==
    \/ ~tok.jwt
    \/ tok.alg = "HS256" /\ tok.key # "hmacSecret"
    \/ tok.claim # "number"

\* decodeJWTToken: TRUE when it returns an error
DecodeJWTTokenErr(tok) ==
    \/ ~tok.jwt
    \/ tok.alg # "HS256"
    \/ tok.key # "hmacSecret"
    \/ tok.claim # "number"

\* authRequest: TRUE when it returns an error
AuthRequestErr(tok) == GetJWTTokenErr(tok) \/ DecodeJWTTokenErr(tok)

\* the {custid} of the URL and strconv.ParseUint of it (-1 is an error)
UrlCids == {"1", "01", "2", "x"}

ParseUint(v) ==
    CASE v \in {"1", "01"} -> 1
      [] v = "2" -> 2
      [] OTHER -> -1

\* a handler that serves whatever customer the URL names
AnyCustomer(custID, cust) == FALSE

\* custID != cust.CustomerNumber
WrongCustomer(custID, cust) == custID # cust

\* the authenticated endpoints: the backend call of each, whether its URL
\* has a {uuid}, whether it decodes a body before the call
Endpoints ==
    {[h |-> "customerListIndexers", call |-> "ListIndexes", uuid |-> FALSE, body |-> FALSE],
     [h |-> "indexerListWells", call |-> "ListIndexerWells", uuid |-> TRUE, body |-> FALSE],
     [h |-> "getWellTimeframe", call |-> "GetWellTimeframe", uuid |-> TRUE, body |-> FALSE],
     [h |-> "getWellShardsInTimeframe", call |-> "GetShardsInTimeframe", uuid |-> TRUE, body |-> TRUE],
     [h |-> "shardPushHandler", call |-> "UnpackShard", uuid |-> TRUE, body |-> FALSE],
     [h |-> "shardPullHandler", call |-> "PackShard", uuid |-> TRUE, body |-> FALSE],
     [h |-> "indexerGetTags", call |-> "GetTags", uuid |-> TRUE, body |-> FALSE],
     [h |-> "indexerSyncTags", call |-> "SyncTags", uuid |-> TRUE, body |-> TRUE]}

EndpointOf(h) == CHOOSE e \in Endpoints : e.h = h

NoRequest ==
    [ep |-> "", cid |-> "", tok |-> [hdr |-> "", jwt |-> FALSE, alg |-> "HS256",
                                     key |-> "other", claim |-> "absent", num |-> 1]]

\* no request in the server
WbIdle ==
    [req |-> NoRequest,
     pc |-> "idle",       \* idle, auth, handler, backend, done
     cust |-> 0,          \* CustomerDetails.CustomerNumber
     status |-> 0,        \* the status written, 0 while none
     invoked |-> FALSE,   \* the endpoint handler was called
     backend |-> <<>>]    \* the calls into the ShardHandler, [call, cid]

\* goroutines sharing one tag manager
Goroutines == 1..NGoroutines

\* the exported operations of TagMan
TagManOps ==
    {"Active", "ImportTags", "AddTag", "GetTag", "ReverseLookup", "GetAndPopulate",
     "GetTagSubmap", "EnsureTag", "TagSet", "ResetOverride", "Count", "Merge", "Close"}

\* the operation takes tm.mtx before it touches tm.tags and tm.tagKeys
LocksMutex(op) == op # "EnsureTag"

\* nobody holds tm.mtx (holder 0), nobody is in a call
MxInit ==
    [holder |-> 0,
     pc |-> [g \in Goroutines |-> "idle"],    \* idle, lock, maps
     op |-> [g \in Goroutines |-> ""]]

(***************************************************************************)
(* Upload tracker.                                                         *)
(***************************************************************************)
\* an EnterUpload that does not look at the map
EnterErrNoCheck(uid) == ""

\* EnterUpload: the error it returns for uid ("" is nil)
EnterErr(uid) == IF uid \in active THEN "inprogress" ELSE ""

\* EnterUpload: the map after the call
EnterUpload(uid) == IF uid \in active THEN active ELSE active \cup {uid}

\* ExitUpload: the map after the call
ExitUpload(uid) == active \ {uid}

\* the calls that are between their successful EnterUpload and their ExitUpload
HoldPcs == {"probe", "mkdir", "unpack", "remove", "exit", "check", "pack"}

Holds(p) == calls[p].pc \in HoldPcs

(***************************************************************************)
(* Client.PushShard (package client).                                      *)
(*   pc: where PushShard is;  first: the case of the select that fired;    *)
(*   drain: the channels PushShard still receives from, and whether the    *)
(*   value becomes the returned error;  err: the returned error ("" is     *)
(*   nil);  packChan, reqRespChan: "empty", the value sent, "taken" or     *)
(*   "closed";  packVal, reqVal: the value each task sent;                 *)
(*   ctx: the request's context is done;  pkctx: the packer's context is   *)
(*   done;  pipe: "open", "eof" or the error it was closed with;           *)
(*   tick: tckchan holds a tick;  ppc, k: asyncPackShard and the writes it *)
(*   has completed;  rpc: asyncPushShard.                                  *)
(***************************************************************************)
ClInit ==
    [pc |-> "select", first |-> "", drain |-> <<>>, err |-> "",
     packChan |-> "empty", reqRespChan |-> "empty", packVal |-> "", reqVal |-> "",
     ctx |-> FALSE, pkctx |-> FALSE, pipe |-> "open", tick |-> FALSE,
     ppc |-> "add", k |-> 0, rpc |-> "reading"]

\* a Cancel that only trips the packer's context
CancelContextOnly(c) == [c EXCEPT !.pkctx = TRUE]

\* Packer.Cancel: p.cf(), then p.pwtr.CloseWithError; the first close of a
\* pipe is the one that counts
Cancel(c) ==
    [c EXCEPT !.pkctx = TRUE,
              !.pipe = IF @ = "open" THEN "Cancelled" ELSE @]

(***************************************************************************)
(* Closing a Packer (CloseWithTimeout, Close, Cancel).                     *)
(*   pc[c]: where the call c is ("cwt" is the CloseWithTimeout, "close"    *)
(*   the Close made after it returned);  res[c]: what it returned;         *)
(*   w[c]: the write to the pipe it is making;                             *)
(*   mtx: the call that holds the Packer's mutex ("" is none);             *)
(*   tmr: the timer of CloseWithTimeout;  ctx: the packer's context is     *)
(*   done;  pipe: "open", "eof" or "Cancelled";  hdr: the zlib header has  *)
(*   been written;  twclosed: the tar writer has been closed;  zerr: the   *)
(*   zlib writer holds an error;  zclosed: the zlib stream has been        *)
(*   finished;  reads: a read of the packer took place.                    *)
(***************************************************************************)
Closers == {"cwt", "close"}

PtInit(h) ==
    [pc |-> [c \in Closers |-> "idle"], res |-> [c \in Closers |-> ""],
     w |-> [c \in Closers |-> ""], mtx |-> "", tmr |-> "off", ctx |-> FALSE, pipe |-> "open",
     hdr |-> h, twclosed |-> FALSE, zerr |-> FALSE, zclosed |-> FALSE,
     reads |-> FALSE]

\* a CloseWithError of the pipe's writer that leaves the pipe as it is
PipeCloseIgnored(pipe, e) == pipe

\* p.pwtr.CloseWithError(e), p.pwtr.Close() with e = "eof": the first close of
\* the pipe is the one its reader and its writer see
PipeCloseWithError(pipe, e) == IF pipe = "open" THEN e ELSE pipe

(***************************************************************************)
(* FTP backend (ftpstore): tags.dat of one indexer.                        *)
(*   remote: the file on the server;  local: the file in the local store   *)
(*   (ex: it exists, lines: its lines);  leftover: the local file is the   *)
(*   empty file a failed fetch created;  last: the last operation, the     *)
(*   outcome of its fetch ("none" when the local file was there), whether  *)
(*   its Merge succeeded, whether it started on a leftover, its error.     *)
(***************************************************************************)
NoFile == [ex |-> FALSE, lines |-> <<>>]

FileOf(lines) == [ex |-> TRUE, lines |-> lines]

FtInit(remote) ==
    [remote |-> remote, local |-> NoFile, leftover |-> FALSE,
     last |-> [op |-> "", fetch |-> "none", merged |-> FALSE, onLeftover |-> FALSE,
               err |-> FALSE]]

\* what Retr of tags.dat can answer: the file, 551 when there is none, or
\* another error
RetrOutcomes(f) ==
    IF f.local.ex THEN {"none"}
    ELSE IF f.remote.ex THEN {"ok", "fail"}
    ELSE {"551", "fail"}

\* ensureTagsDat: nothing when the local file exists; else the file is
\* created, and filled when Retr answers
EnsureTagsDat(f, o) ==
    IF f.local.ex THEN [local |-> f.local, err |-> FALSE, leftover |-> f.leftover]
    ELSE IF o = "ok" THEN [local |-> FileOf(f.remote.lines), err |-> FALSE, leftover |-> FALSE]
    ELSE [local |-> FileOf(<<>>), err |-> o # "551", leftover |-> o # "551"]

(***************************************************************************)
(* Shard names and timeframes (package util, GetShardsInTimeframe).        *)
(*   well.ents[v]: the entry of the well directory named hex(v): "none",   *)
(*   "dir" or "file";  well.junk: there is an entry whose name does not    *)
(*   parse;  tf: the timeframe of the last query;  shards: the names it    *)
(*   returned;  called: a query was made.                                  *)
(***************************************************************************)
shardQuant == ShardSet + 1

ShardIds == 0..MaxShard

NoWell == [ents |-> [v \in ShardIds |-> "none"], junk |-> FALSE]

\* the zero Timeframe: both instants are the zero time.Time
ZeroTimeframe == [zero |-> TRUE, Start |-> 0, End |-> 0]

ShInit(well) ==
    [well |-> well, tf |-> [Start |-> 0, End |-> 0], shards |-> {}, called |-> FALSE,
     wtf |-> ZeroTimeframe, wcalled |-> FALSE]

\* ShardNameToDateRange of a name that parses to v
ShardNameToDateRange(v) ==
    [s |-> v * (2 ^ shardMaskBitCount), e |-> v * (2 ^ shardMaskBitCount) + shardQuant]

\* the loop of GetWellTimeframe over the entries S whose name parses: the
\* earliest start and the latest end, the zero Timeframe when there is none
WellTimeframe(S) ==
    IF S = {} THEN ZeroTimeframe
    ELSE [zero |-> FALSE,
          Start |-> CHOOSE a \in {ShardNameToDateRange(v).s : v \in S} :
                       \A b \in {ShardNameToDateRange(v).s : v \in S} : a <= b,
          End |-> CHOOSE a \in {ShardNameToDateRange(v).e : v \in S} :
                     \A b \in {ShardNameToDateRange(v).e : v \in S} : a >= b]

\* the switch without its third case
InTimeframeStrict(r, tf) ==
    \/ r.s < tf.Start /\ r.e > tf.Start
    \/ r.s < tf.End /\ r.e > tf.End
    \/ tf.Start < r.s /\ tf.End > r.e

\* the switch of GetShardsInTimeframe: TRUE when the name is appended
InTimeframe(r, tf) ==
    \/ r.s < tf.Start /\ r.e > tf.Start
    \/ r.s < tf.End /\ r.e > tf.End
    \/ r.s = tf.End \/ r.s = tf.Start \/ r.e = tf.End \/ r.e = tf.Start
    \/ tf.Start < r.s /\ tf.End > r.e

(***************************************************************************)
(* Shard ids of instants (GetShardId, NextShardId, ShardNameToDateRange).  *)
(* A count of seconds is held as [hi, lo] with value hi * 2^17 + lo and    *)
(* 0 <= lo < 2^17, so that the counts of present-day instants can be       *)
(* written.  An instant is its Unix time.                                  *)
(*   t: the instant;  s: GetShardId(t);  name: the hex digits of s >> 17   *)
(*   (neg: with a minus sign);  r: ShardNameToDateRange(name), as the      *)
(*   seconds of the two timestamps it builds;  pc: what has been computed. *)
(***************************************************************************)
Wide(hi, lo) == [hi |-> hi + (lo \div shardQuant), lo |-> lo % shardQuant]

Epoch == Wide(0, 0)

\* entry.FromStandard(t).Sec: gravwell timestamps count seconds from year 1,
\* (1969*365 + 1969/4 - 1969/100 + 1969/400) days before the Unix epoch;
\* a day is 675 * 2^7 seconds
unixToInternal ==
    LET days == 1969 * 365 + 1969 \div 4 - 1969 \div 100 + 1969 \div 400
    IN Wide((days * 675) \div 1024, ((days * 675) % 1024) * 128)

FromStandardSec(t) == Wide(t.hi + unixToInternal.hi, t.lo + unixToInternal.lo)

\* a GetShardId without the mask
GetShardIdUnmasked(t) == FromStandardSec(t)

\* GetShardId: entry.FromStandard(t).Sec & shardMask
GetShardId(t) == [hi |-> FromStandardSec(t).hi, lo |-> 0]

\* NextShardId: (curr & shardMask) + shardQuant
NextShardId(curr) == Wide(curr.hi + 1, 0)

\* the digits of n >= 0 in base 16, most significant first
RECURSIVE HexDigits(_)
HexDigits(n) == IF n < 16 THEN <<n>> ELSE Append(HexDigits(n \div 16), n % 16)

\* fmt.Sprintf("%x", v)
FormatHex(v) == [neg |-> v < 0, digits |-> HexDigits(IF v < 0 THEN -v ELSE v)]

\* strconv.ParseInt(nm, 16, 64) of a well-formed name
RECURSIVE ParseDigits(_)
ParseDigits(d) ==
    IF d = <<>> THEN 0 ELSE ParseDigits(SubSeq(d, 1, Len(d) - 1)) * 16 + d[Len(d)]

ParseInt16(nm) == IF nm.neg THEN -ParseDigits(nm.digits) ELSE ParseDigits(nm.digits)

\* ShardNameToDateRange, on counts of seconds of any size: Sec of st and of et
ShardNameToDateRangeSec(nm) ==
    [s |-> Wide(ParseInt16(nm), 0), e |-> NextShardId(Wide(ParseInt16(nm), 0))]

SiInit(t) ==
    [t |-> t, s |-> Epoch, name |-> FormatHex(0), r |-> [s |-> Epoch, e |-> Epoch],
     pc |-> "t"]

(***************************************************************************)
(* pkg/flock: record locks on one file.  The processes that open the file  *)
(* and the handles (open file descriptions) each of them may hold.         *)
(***************************************************************************)
LockProcs == 1..NGoroutines
LockHandles == LockProcs \X (1..MaxHandles)
ProcOf(h) == h[1]

LkInit ==
    [open |-> [h \in LockHandles |-> FALSE],
     held |-> [p \in LockProcs |-> "F_UNLCK"],
     by   |-> [p \in LockProcs |-> <<p, 1>>],
     last |-> [op |-> "none", h |-> <<1, 1>>, excl |-> FALSE, err |-> "nil"]]

\* client.NewClient: no session, no customer
AuInit ==
    [state |-> "STATE_NEW", jwt |-> 0, custID |-> 0,
     last |-> [op |-> "none", status |-> 0, err |-> "nil"]]

\* NewFtpStoreHandler: no operation in flight, no connection
FcInit ==
    [pc |-> [p \in 1..NGoroutines |-> "idle"],
     conn |-> [p \in 1..NGoroutines |-> FALSE],
     left |-> 0,
     last |-> [op |-> "none", dial |-> "none", err |-> FALSE]]

\* an UnpackShard called with the strings well and shard, each held as its
\* sequence of slash-separated elements
PaInit(well, shard) ==
    [well |-> well, shard |-> shard,
     sdir |-> <<>>,        \* handler.sdir
     touched |-> {},       \* the paths created, written or removed
     n |-> 0,              \* entries handled
     pc |-> "enter"]       \* enter, unpack, nil, err

\* an UnpackShard about to read a stream of n entries whose entry number tpos
\* (none when 0) is the tagsupdate entry with the list s; d0 is the indexer's
\* tag dictionary before the push
UsInit(d0, n, tpos, s) ==
    [n |-> n, tpos |-> tpos, s |-> s,
     d0 |-> d0, d |-> d0,
     pos |-> 0,            \* entries handled
     ran |-> FALSE,        \* HandleTagUpdate has called Merge
     dir |-> FALSE,        \* the shard directory exists
     res |-> "enter"]      \* enter, unpack, nil, err

NIdle ==
    /\ lk = LkInit
    /\ au = AuInit
    /\ fc = FcInit
    /\ us = UsInit(TmNew, 0, 0, <<>>)
    /\ pa = PaInit(<<"w">>, <<"s">>)

\* the state of the later specifications before they start
OIdle ==
    /\ cl = ClInit
    /\ pt = PtInit(FALSE)
    /\ fb = FtInit(NoFile)
    /\ sh = ShInit(NoWell)
    /\ si = SiInit(Epoch)
    /\ NIdle

(***************************************************************************)
(* Backend calls.                                                          *)
(***************************************************************************)
\* a backend step leaves the other subsystems alone
BFrame == UNCHANGED <<pk, tm, reg, ph, cd, wb, mx, ovars>>

\* an HTTP handler calls UnpackShard or PackShard for some shard name
Start(p) ==
    /\ calls[p].pc = "idle"
    /\ \E o \in {"unpack", "pack"}, s \in ShardNames :
         calls' = [calls EXCEPT ![p] = [IdleCall EXCEPT !.op = o, !.shard = s,
                                                         !.pc = "enter"]]
    /\ UNCHANGED <<active, fs, sealed>> /\ BFrame

\* UnpackShard / PackShard: f.EnterUpload(uid)
Enter(p) ==
    /\ calls[p].pc = "enter"
    /\ LET c == calls[p]
           e == EnterErr(c.shard)
       IN /\ active' = EnterUpload(c.shard)
          /\ calls' = [calls EXCEPT ![p] =
                IF e # "" THEN [c EXCEPT !.pc = "done", !.err = e]
                ELSE IF c.op = "unpack"
                     THEN [c EXCEPT !.pc = "probe", !.dir = c.shard, !.i = 1]
                     ELSE [c EXCEPT !.pc = "check", !.dir = c.shard]]
    /\ UNCHANGED <<fs, sealed>> /\ BFrame

\* a collision loop that settles on the requested name whatever exists
ProbeNoSuffix(p) ==
    /\ calls[p].pc = "probe"
    /\ calls' = [calls EXCEPT ![p].pc = "mkdir"]
    /\ UNCHANGED <<active, fs, sealed>> /\ BFrame

\* UnpackShard: one iteration of the collision loop (os.Stat, then the suffix)
Probe(p) ==
    /\ calls[p].pc = "probe"
    /\ LET c == calls[p] IN
         calls' = [calls EXCEPT ![p] =
            IF ~fs[c.dir].ex
            THEN [c EXCEPT !.pc = "mkdir"]
            ELSE [c EXCEPT !.dir = Suffixed(c.shard, c.i), !.i = c.i + 1,
                           !.pc = IF c.i + 1 < SuffixLimit THEN "probe" ELSE "mkdir"]]
    /\ UNCHANGED <<active, fs, sealed>> /\ BFrame

\* UnpackShard: os.MkdirAll(shardDir) succeeds
MkdirOk(p) ==
    /\ calls[p].pc = "mkdir"
    /\ fs' = [fs EXCEPT ![calls[p].dir] = MkdirAll(@)]
    /\ calls' = [calls EXCEPT ![p].pc = "unpack"]
    /\ UNCHANGED <<active, sealed>> /\ BFrame

\* UnpackShard: os.MkdirAll(shardDir) fails; ExitUpload and return follow
MkdirFail(p) ==
    /\ calls[p].pc = "mkdir"
    /\ calls' = [calls EXCEPT ![p].pc = "exit", ![p].err = "mkdir"]
    /\ UNCHANGED <<active, fs, sealed>> /\ BFrame

\* Unpack: the next entry of the stream goes to handler.HandleFile, whose
\* os.Create fails when the shard directory is gone
HandleFile(p) ==
    /\ calls[p].pc = "unpack"
    /\ calls[p].n < NEntries
    /\ LET c == calls[p] IN
         IF fs[c.dir].ex
         THEN /\ fs' = [fs EXCEPT ![c.dir] = WriteFile(@, c.n + 1, p)]
              /\ calls' = [calls EXCEPT ![p].n = c.n + 1]
         ELSE /\ fs' = fs
              /\ calls' = [calls EXCEPT ![p].pc = "remove", ![p].err = "unpack"]
    /\ UNCHANGED <<active, sealed>> /\ BFrame

\* Unpack: a read error, a cancellation or a structural error of the stream
UnpackFail(p) ==
    /\ calls[p].pc = "unpack"
    /\ calls' = [calls EXCEPT ![p].pc = "remove", ![p].err = "unpack"]
    /\ UNCHANGED <<active, fs, sealed>> /\ BFrame

\* Unpack: end of stream, every entry handled; Unpack returns nil
UnpackEof(p) ==
    /\ calls[p].pc = "unpack"
    /\ calls[p].n = NEntries
    /\ calls' = [calls EXCEPT ![p].pc = "exit"]
    /\ UNCHANGED <<active, fs, sealed>> /\ BFrame

\* UnpackShard: os.RemoveAll(shardDir) on the error path
RemoveAll(p) ==
    /\ calls[p].pc = "remove"
    /\ fs' = [fs EXCEPT ![calls[p].dir] = NoDir]
    /\ calls' = [calls EXCEPT ![p].pc = "exit"]
    /\ UNCHANGED <<active, sealed>> /\ BFrame

\* PackShard: readableDir(shardDir)
CheckDir(p) ==
    /\ calls[p].pc = "check"
    /\ calls' = [calls EXCEPT ![p] =
          IF fs[calls[p].dir].ex THEN [@ EXCEPT !.pc = "pack"]
          ELSE [@ EXCEPT !.pc = "exit", !.err = "notdir"]]
    /\ UNCHANGED <<active, fs, sealed>> /\ BFrame

\* PackShard: the pack and copy tasks have both reported, with or without error
PackDone(p) ==
    /\ calls[p].pc = "pack"
    /\ \E e \in {"", "pack"} :
         calls' = [calls EXCEPT ![p].pc = "exit", ![p].err = e]
    /\ UNCHANGED <<active, fs, sealed>> /\ BFrame

\* an exit path that forgets its ExitUpload
ExitOfForgotten(p) == active

\* the tracker after the ExitUpload of call p
ExitOf(p) == ExitUpload(calls[p].shard)

\* UnpackShard / PackShard: f.ExitUpload(uid), then return
Exit(p) ==
    /\ calls[p].pc = "exit"
    /\ active' = ExitOf(p)
    /\ calls' = [calls EXCEPT ![p].pc = "done"]
    /\ sealed' = IF calls[p].op = "unpack" /\ calls[p].err = ""
                 THEN sealed \cup {calls[p].dir} ELSE sealed
    /\ UNCHANGED fs /\ BFrame

Init ==
    /\ active = {}
    /\ \E k \in 0..SuffixLimit :
         /\ fs = [d \in Dirs |->
                    IF \E j \in 0..(k - 1) : d = Chain(j) THEN OldDir ELSE NoDir]
         /\ sealed = {Chain(j) : j \in 0..(k - 1)}
    /\ calls = [p \in Procs |-> IdleCall]
    /\ pk = PkInit
    /\ tm = TmInit
    /\ reg = RegInit
    /\ ph = PhInit
    /\ cd = CdInit(BaseName)
    /\ wb = WbIdle
    /\ mx = MxInit
    /\ OIdle

Next ==
    \/ \E p \in Procs : Start(p)
    \/ \E p \in Procs : Enter(p)
    \/ \E p \in Procs : Probe(p)
    \/ \E p \in Procs : MkdirOk(p)
    \/ \E p \in Procs : MkdirFail(p)
    \/ \E p \in Procs : HandleFile(p)
    \/ \E p \in Procs : UnpackFail(p)
    \/ \E p \in Procs : UnpackEof(p)
    \/ \E p \in Procs : RemoveAll(p)
    \/ \E p \in Procs : CheckDir(p)
    \/ \E p \in Procs : PackDone(p)
    \/ \E p \in Procs : Exit(p)

Spec == Init /\ [][Next]_vars

(***************************************************************************)
(* Claims about the upload tracker and the backend calls (Spec).           *)
(***************************************************************************)
\* C1: at any instant at most one call holds an upload id: between a
\* successful EnterUpload(id) and the holder's ExitUpload(id) no other
\* EnterUpload(id) succeeds.
C1_AtMostOneHolder ==
    \A p \in Procs : \A q \in Procs :
        (Holds(p) /\ Holds(q) /\ calls[p].shard = calls[q].shard) => p = q

\* C1 witness: one call holds the id and another was refused with "in progress"
C1_Witness ==
    \E p \in Procs : \E q \in Procs :
        /\ p # q
        /\ Holds(p)
        /\ calls[q].pc = "done"
        /\ calls[q].err = "inprogress"
        /\ calls[q].shard = calls[p].shard

\* C3: the tracker holds exactly the ids of the calls that entered and have
\* not yet left: a call that has returned has removed its own entry on every
\* exit path, and a refused EnterUpload removes nothing of the holder's.
C3_TrackerIsHolders ==
    active = {calls[p].shard : p \in {q \in Procs : Holds(q)}}

\* C3 witness: a call has returned on an error path after entering, a second
\* call was refused, and the tracker is empty
C3_Witness ==
    \E p \in Procs : \E q \in Procs :
        /\ calls[p].pc = "done" /\ calls[p].err \in {"unpack", "mkdir", "notdir", "pack"}
        /\ calls[q].pc = "done" /\ calls[q].err = "inprogress"
        /\ active = {}

\* C4: once the push that created a shard directory has returned nil, no
\* step of any backend call writes to, overwrites or removes that directory.
C4_SealedNeverTouched ==
    [][\A d \in sealed : fs'[d] = fs[d]]_vars

\* C10: when UnpackShard returns an error from Unpack, after it created its
\* target directory, that directory does not exist at the return.
C10_FailedUnpackLeavesNoDir ==
    [][\A p \in Procs :
          (/\ calls[p].op = "unpack"
           /\ calls[p].pc = "exit" /\ calls'[p].pc = "done"
           /\ calls[p].err = "unpack")
          => ~fs'[calls[p].dir].ex]_vars

(***************************************************************************)
(* The PackShard pipeline (filestore.PackShard and ftpstore.PackShard):    *)
(* the file adding task writes through tar and zlib into the packer's      *)
(* io.Pipe, the copy task io.Copy's the pipe into the response writer, and *)
(* PackShard selects on their two completion channels.  A pipe Write       *)
(* blocks until a Read takes its bytes or the pipe is closed.              *)
(***************************************************************************)
PFrame == UNCHANGED <<bvars, tm, reg, ph, cd, wb, mx, ovars>>

\* the backend calls are not part of this specification
BIdle == active = {} /\ fs = <<>> /\ calls = <<>> /\ sealed = {}

\* a CloseWithError that ends the pipe the way Close does
ClosedWithEof(pipe) == IF pipe = "open" THEN "weof" ELSE pipe

\* the pipe after pwtr.CloseWithError(err): the first close wins
ClosedWithError(pipe) == IF pipe = "open" THEN "werr" ELSE pipe

\* a write through contextio.NewWriter(p.ctx, p.pwtr) can start
CanWrite == pk.pipe = "open" /\ ~pk.cancelled

\* Packer.AddFile: hitType under the mutex, then a header and a body that stay
\* in the tar and zlib buffers
AddBuffered ==
    /\ pk.add = "add" /\ pk.nf < PackFiles /\ pk.lock = "free" /\ CanWrite
    /\ pk' = [pk EXCEPT !.nf = @ + 1]
    /\ PFrame

\* Packer.AddFile: hitType under the mutex, then a write that reaches the pipe
AddWrite ==
    /\ pk.add = "add" /\ pk.nf < PackFiles /\ pk.lock = "free" /\ CanWrite
    /\ pk' = [pk EXCEPT !.pend = TRUE, !.add = "addw"]
    /\ PFrame

\* Packer.AddFile after the packer was closed with an error: the write fails
AddRejected ==
    /\ pk.add = "add" /\ pk.nf < PackFiles /\ pk.lock = "free" /\ ~CanWrite
    /\ pk' = [pk EXCEPT !.aerr = TRUE, !.add = "cwe"]
    /\ PFrame

\* util.addFile: getHandleAndSize or the read of the file fails
AddFail ==
    /\ pk.add = "add" /\ pk.nf < PackFiles
    /\ pk' = [pk EXCEPT !.aerr = TRUE, !.add = "cwe"]
    /\ PFrame

\* the blocked write of AddFile returns: taken by a Read, or the pipe closed
AddWritten ==
    /\ pk.add = "addw" /\ (~pk.pend \/ pk.pipe # "open")
    /\ pk' = IF ~pk.pend THEN [pk EXCEPT !.nf = @ + 1, !.add = "add"]
             ELSE [pk EXCEPT !.pend = FALSE, !.aerr = TRUE, !.add = "cwe"]
    /\ PFrame

\* AddShardFilesToPacker returns nil
AddDone ==
    /\ pk.add = "add" /\ pk.nf = PackFiles
    /\ pk' = [pk EXCEPT !.add = "flush"]
    /\ PFrame

\* Packer.Flush: p.Lock(), then a.Flush() and b.Flush() write to the pipe
FlushStart ==
    /\ pk.add = "flush" /\ pk.lock = "free"
    /\ pk' = IF CanWrite THEN [pk EXCEPT !.lock = "adder", !.pend = TRUE, !.add = "flushw"]
             ELSE [pk EXCEPT !.aerr = TRUE, !.add = "cwe"]
    /\ PFrame

\* Packer.Flush: the write returns, p.Unlock()
FlushWritten ==
    /\ pk.add = "flushw" /\ (~pk.pend \/ pk.pipe # "open")
    /\ pk' = IF ~pk.pend THEN [pk EXCEPT !.lock = "free", !.add = "close"]
             ELSE [pk EXCEPT !.pend = FALSE, !.lock = "free", !.aerr = TRUE, !.add = "cwe"]
    /\ PFrame

\* Packer.Close -> closePipeline: p.Lock(), then twtr.Close() and zwtr.Close()
\* write the trailer to the pipe
CloseStart ==
    /\ pk.add = "close" /\ pk.lock = "free"
    /\ pk' = IF CanWrite THEN [pk EXCEPT !.lock = "adder", !.pend = TRUE, !.add = "closew"]
             ELSE [pk EXCEPT !.aerr = TRUE, !.add = "cwe"]
    /\ PFrame

\* closePipeline: the write returns, pwtr.Close(), deferred p.Unlock()
CloseWritten ==
    /\ pk.add = "closew" /\ (~pk.pend \/ pk.pipe # "open")
    /\ pk' = IF ~pk.pend THEN [pk EXCEPT !.lock = "free", !.pipe = "weof", !.add = "send"]
             ELSE [pk EXCEPT !.pend = FALSE, !.lock = "free", !.aerr = TRUE, !.add = "cwe"]
    /\ PFrame

\* the file adding task: p.CloseWithError(err)
AddCloseWithError ==
    /\ pk.add = "cwe" /\ pk.lock = "free"
    /\ pk' = [pk EXCEPT !.pipe = ClosedWithError(@), !.cancelled = TRUE, !.add = "send"]
    /\ PFrame

\* the file adding task: ch <- err (the channel has room for one)
AddSend ==
    /\ pk.add = "send"
    /\ pk' = [pk EXCEPT !.chA = IF pk.aerr THEN "err" ELSE "nil", !.add = "done"]
    /\ PFrame

\* io.Copy: p.Read returns bytes of a blocked Write, io.EOF or the close error
CopyRead ==
    /\ pk.copy = "read" /\ (pk.pend \/ pk.pipe # "open")
    /\ pk' = IF pk.pipe = "weof" THEN [pk EXCEPT !.copy = "send"]
             ELSE IF pk.pipe = "werr" THEN [pk EXCEPT !.cerr = TRUE, !.copy = "send"]
             ELSE [pk EXCEPT !.pend = FALSE, !.copy = "write"]
    /\ PFrame

\* io.Copy: wtr.Write succeeds
CopyWriteOk ==
    /\ pk.copy = "write"
    /\ pk' = [pk EXCEPT !.copy = "read"]
    /\ PFrame

\* io.Copy: wtr.Write fails (the client is gone, or the watchdog closed the
\* connection), io.Copy returns the error
CopyWriteFail ==
    /\ pk.copy = "write"
    /\ pk' = [pk EXCEPT !.cerr = TRUE, !.copy = "send"]
    /\ PFrame

\* the copy task: ch <- err
CopySend ==
    /\ pk.copy = "send"
    /\ pk' = [pk EXCEPT !.chC = IF pk.cerr THEN "err" ELSE "nil", !.copy = "done"]
    /\ PFrame

\* PackShard: select, case err = <-copyErrChan
SelectCopy ==
    /\ pk.orch = "select" /\ pk.chC \in {"nil", "err"}
    /\ pk' = [pk EXCEPT !.chC = "taken", !.err = (pk.chC = "err"),
                        !.orch = IF pk.chC = "err" THEN "cwe_a" ELSE "wait_a"]
    /\ PFrame

\* PackShard: select, case err = <-addFilesErrChan
SelectAdd ==
    /\ pk.orch = "select" /\ pk.chA \in {"nil", "err"}
    /\ pk' = [pk EXCEPT !.chA = "taken", !.err = (pk.chA = "err"),
                        !.orch = IF pk.chA = "err" THEN "cwe_c" ELSE "wait_c"]
    /\ PFrame

\* PackShard: p.CloseWithError(err), which takes the packer's mutex
OrchCloseWithError ==
    /\ pk.orch \in {"cwe_a", "cwe_c"} /\ pk.lock = "free"
    /\ pk' = [pk EXCEPT !.pipe = ClosedWithError(@), !.cancelled = TRUE,
                        !.orch = IF pk.orch = "cwe_a" THEN "wait_a" ELSE "wait_c"]
    /\ PFrame

\* PackShard: <-addFilesErrChan (its error counts when the copy ended clean)
WaitAdd ==
    /\ pk.orch = "wait_a" /\ pk.chA \in {"nil", "err"}
    /\ pk' = [pk EXCEPT !.chA = "taken", !.err = (pk.err \/ pk.chA = "err"),
                        !.orch = "exit"]
    /\ PFrame

\* PackShard: <-copyErrChan
WaitCopy ==
    /\ pk.orch = "wait_c" /\ pk.chC \in {"nil", "err"}
    /\ pk' = [pk EXCEPT !.chC = "taken", !.err = (pk.err \/ pk.chC = "err"),
                        !.orch = "exit"]
    /\ PFrame

\* PackShard: f.ExitUpload(uid), return (the deferred closes of the channels)
PackReturn ==
    /\ pk.orch = "exit"
    /\ pk' = [pk EXCEPT !.orch = "returned"]
    /\ PFrame

InitPack ==
    /\ BIdle
    /\ pk = PkInit
    /\ tm = TmInit
    /\ reg = RegInit
    /\ ph = PhInit
    /\ cd = CdInit(BaseName)
    /\ wb = WbIdle
    /\ mx = MxInit
    /\ OIdle

NextPack ==
    \/ AddBuffered \/ AddWrite \/ AddRejected \/ AddFail \/ AddWritten \/ AddDone
    \/ FlushStart \/ FlushWritten \/ CloseStart \/ CloseWritten
    \/ AddCloseWithError \/ AddSend
    \/ CopyRead \/ CopyWriteOk \/ CopyWriteFail \/ CopySend
    \/ SelectCopy \/ SelectAdd \/ OrchCloseWithError \/ WaitAdd \/ WaitCopy
    \/ PackReturn

SpecPack == InitPack /\ [][NextPack]_vars

\* every task that can take a step eventually takes one
FairSpecPack == SpecPack /\ WF_vars(NextPack)

(***************************************************************************)
(* Claims about the PackShard pipeline (SpecPack).                         *)
(***************************************************************************)
\* C2: whichever task fails, and wherever the other task is, PackShard never
\* blocks forever: as long as it has not returned, some task can take a step.
C2_PackShardNeverBlocks == pk.orch = "returned" \/ ENABLED NextPack


(***************************************************************************)
(* Tag manager: calls made on one open TagMan.                             *)
(***************************************************************************)
TFrame == UNCHANGED <<bvars, pk, reg, ph, cd, wb, mx, ovars>>

\* names handed to AddTag, GetAndPopulate and ImportTags
RawNames == {"default", "a", " a", "b", "a b"}

\* pairs handed to EnsureTag, Merge and ResetOverride
PairNames == {"default", "gravwell", "a", "b", "a b"}

PairIds == {DefaultTagId, 1, GravwellTagId}

Pairs == {TagPair(n, v) : n \in PairNames, v \in PairIds}

SeqsUpTo(S, n) == UNION {[1..k -> S] : k \in 0..n}

\* the pair (n, v) disagrees with ("default", 0) or ("gravwell", 0xFFFF)
ReservedConflict(n, v) ==
    \/ n = "default" /\ v # DefaultTagId
    \/ n = "gravwell" /\ v # GravwellTagId
    \/ v = DefaultTagId /\ n # "default"
    \/ v = GravwellTagId /\ n # "gravwell"

Called(op, conflict, r) ==
    /\ r.d.nextTag <= MaxNextTag
    /\ tm' = [d |-> r.d,
              last |-> [op |-> op, conflict |-> conflict, err |-> r.err,
                        na |-> "na" \in DOMAIN r /\ r.na],
              ok |-> IF op = "New" THEN ~r.err ELSE tm.ok /\ ~r.err]

AddTag(raw) ==
    /\ Called("AddTag", TrimSpace(raw) \in {"default", "gravwell"}, AddTagRes(tm.d, raw))
    /\ TFrame

GetAndPopulate(raw) ==
    /\ Called("GetAndPopulate", FALSE, GetAndPopulateRes(tm.d, raw))
    /\ TFrame

\* ImportTags skips a name that is present, and the reserved names always are
ImportTags(tgs) ==
    /\ Called("ImportTags", FALSE, ImportTagsRes(tm.d, tgs))
    /\ TFrame

EnsureTag(v) ==
    /\ Called("EnsureTag", ReservedConflict(v.Name, v.Value), EnsureTagRes(tm.d, v.Value, v.Name))
    /\ TFrame

Merge(s) ==
    /\ Called("Merge", \E i \in 1..Len(s) : ReservedConflict(s[i].Name, s[i].Value),
              MergeRes(tm.d, s))
    /\ TFrame

ResetOverride(s) ==
    /\ Called("ResetOverride", FALSE, ResetOverrideRes(tm.d, s))
    /\ TFrame

GetTag(raw) ==
    /\ Called("GetTag", FALSE, ReadRes(tm.d, "GetTag", raw))
    /\ TFrame

ReverseLookup(id) ==
    /\ Called("ReverseLookup", FALSE, ReadRes(tm.d, "ReverseLookup", id))
    /\ TFrame

TagSetOrCount(op) ==
    /\ Called(op, FALSE, ReadRes(tm.d, op, 0))
    /\ TFrame

GetTagSubmap(ids) ==
    /\ Called("GetTagSubmap", FALSE, GetTagSubmapRes(tm.d, ids, 1))
    /\ TFrame

Close ==
    /\ tm.d.active
    /\ Called("Close", FALSE, CloseRes(tm.d))
    /\ TFrame

\* New on the file of the closed instance; no instance when it fails
New ==
    /\ ~tm.d.active
    /\ LET r == NewRes(tm.d.file)
       IN Called("New", FALSE, IF r.err THEN [d |-> tm.d, err |-> TRUE] ELSE r)
    /\ TFrame

InitTags ==
    /\ BIdle
    /\ pk = PkInit
    /\ tm = TmInit
    /\ reg = RegInit
    /\ ph = PhInit
    /\ cd = CdInit(BaseName)
    /\ wb = WbIdle
    /\ mx = MxInit
    /\ OIdle

NextTags ==
    \/ \E raw \in RawNames : AddTag(raw)
    \/ \E raw \in RawNames : GetAndPopulate(raw)
    \/ \E tgs \in SeqsUpTo(RawNames, MaxList) : ImportTags(tgs)
    \/ \E v \in Pairs : EnsureTag(v)
    \/ \E s \in SeqsUpTo(Pairs, MaxList) : Merge(s)
    \/ \E s \in SeqsUpTo(Pairs, MaxList) : ResetOverride(s)
    \/ \E raw \in RawNames : GetTag(raw)
    \/ \E id \in PairIds : ReverseLookup(id)
    \/ \E op \in {"TagSet", "Count"} : TagSetOrCount(op)
    \/ \E ids \in SeqsUpTo(PairIds, MaxList) : GetTagSubmap(ids)
    \/ Close
    \/ New

SpecTags == InitTags /\ [][NextTags]_vars

\* C5: after any sequence of AddTag, ImportTags, Merge and ResetOverride calls
\* the name -> id and id -> name maps are inverse bijections: every name maps
\* to exactly one id and that id maps back to the same name, and conversely.
C5_MapsAreInverseBijections ==
    /\ \A n \in DOMAIN tm.d.tags :
          Has(tm.d.tagKeys, tm.d.tags[n]) /\ tm.d.tagKeys[tm.d.tags[n]] = n
    /\ \A v \in DOMAIN tm.d.tagKeys :
          Has(tm.d.tags, tm.d.tagKeys[v]) /\ tm.d.tags[tm.d.tagKeys[v]] = v

\* C8: a call of AddTag, ImportTags, EnsureTag or Merge that tries to insert a
\* mapping in conflict with ("default", 0) or ("gravwell", 0xFFFF) returns an
\* error and leaves both maps and tags.dat as they were.
C8_ReservedConflictChangesNothing ==
    [][tm'.last.conflict =>
          /\ tm'.last.err
          /\ tm'.d.tags = tm.d.tags
          /\ tm'.d.tagKeys = tm.d.tagKeys
          /\ tm'.d.file = tm.d.file]_vars


(***************************************************************************)
(* Registry of tag managers: GetTagMan, ReleaseTagMan and CloseTagSets on  *)
(* a few keys.  New and Close of a TagMan are taken to succeed.            *)
(***************************************************************************)
RFrame == UNCHANGED <<bvars, pk, tm, ph, cd, wb, mx, ovars>>

RegCalled(op, k, err) == [op |-> op, key |-> k, err |-> err]

GetTagMan(k) ==
    /\ reg.out[k] < MaxHandles
    /\ reg' = IF reg.closed
              THEN [reg EXCEPT !.last = RegCalled("GetTagMan", k, TRUE)]
              ELSE IF ~Has(reg.sets, k) \/ reg.sets[k] = 0
              THEN [reg EXCEPT !.sets = Put(@, k, 1), !.open[k] = TRUE,
                               !.out[k] = @ + 1,
                               !.last = RegCalled("GetTagMan", k, FALSE)]
              ELSE [reg EXCEPT !.sets = Put(@, k, reg.sets[k] + 1),
                               !.out[k] = @ + 1,
                               !.last = RegCalled("GetTagMan", k, FALSE)]
    /\ RFrame

ReleaseTagMan(k) ==
    /\ reg' = IF reg.closed \/ ~Has(reg.sets, k) \/ Handles(k) = 0
              THEN [reg EXCEPT !.last = RegCalled("ReleaseTagMan", k, TRUE)]
              ELSE IF reg.sets[k] = 1
              THEN [reg EXCEPT !.sets = Delete(@, k), !.open[k] = FALSE,
                               !.out[k] = @ - 1,
                               !.last = RegCalled("ReleaseTagMan", k, FALSE)]
              ELSE [reg EXCEPT !.sets = Put(@, k, reg.sets[k] - 1),
                               !.out[k] = @ - 1,
                               !.last = RegCalled("ReleaseTagMan", k, FALSE)]
    /\ RFrame

\* every entry of tagSets has handles > 0 (ReleaseTagMan deletes at zero), so
\* the loop stops at its first entry with ErrOpenHandles, or finds none
CloseTagSets ==
    /\ reg' = [reg EXCEPT !.closed = TRUE, !.sets = <<>>,
                          !.last = RegCalled("CloseTagSets", "",
                                             ~reg.closed /\ \E k \in DOMAIN reg.sets : reg.sets[k] > 0)]
    /\ RFrame

InitReg ==
    /\ BIdle
    /\ pk = PkInit
    /\ tm = TmInit
    /\ reg = RegInit
    /\ ph = PhInit
    /\ cd = CdInit(BaseName)
    /\ wb = WbIdle
    /\ mx = MxInit
    /\ OIdle

NextReg ==
    \/ \E k \in RegKeys : GetTagMan(k)
    \/ \E k \in RegKeys : ReleaseTagMan(k)
    \/ CloseTagSets

SpecReg == InitReg /\ [][NextReg]_vars

\* C6: after a CloseTagSets that failed because handles are outstanding, a
\* release of a handle that is still outstanding succeeds.
C6_ReleaseAfterFailedClose ==
    [][(/\ reg.last.op = "CloseTagSets" /\ reg.last.err
        /\ reg'.last.op = "ReleaseTagMan"
        /\ reg.out[reg'.last.key] > 0)
       => ~reg'.last.err]_vars

\* C7: for every key the registry's refcount is the number of successful
\* GetTagMan calls minus the number of successful ReleaseTagMan calls, the
\* instance is open exactly while that number is positive, there is no map
\* entry at zero, and a ReleaseTagMan with no outstanding handle fails and
\* changes nothing.
C7_RefcountIsGetsMinusReleases ==
    /\ [](\A k \in RegKeys :
            /\ Handles(k) = reg.out[k]
            /\ reg.open[k] <=> reg.out[k] > 0
            /\ reg.out[k] = 0 => ~Has(reg.sets, k))
    /\ [][(reg'.last.op = "ReleaseTagMan" /\ reg.out[reg'.last.key] = 0)
          => (/\ reg'.last.err
              /\ reg'.sets = reg.sets /\ reg'.open = reg.open /\ reg'.closed = reg.closed)]_vars


(***************************************************************************)
(* One shard push: the client, shardPushHandler with UnpackShard reading   *)
(* the request body through a rateTimeoutReader, and the reader's timer.   *)
(* The model has no clock: the timer may fire whenever it is pending.      *)
(***************************************************************************)
HFrame == UNCHANGED <<fs, calls, sealed, pk, tm, reg, cd, wb, mx, ovars>>

\* the client sends the next piece of the body
ClientSend ==
    /\ ph.client = "sending" /\ ph.sent < PushChunks /\ ph.conn = "open"
    /\ ph' = [ph EXCEPT !.sent = @ + 1, !.avail = @ + 1]
    /\ UNCHANGED active /\ HFrame

\* the client ends the body
ClientFinish ==
    /\ ph.client = "sending" /\ ph.sent = PushChunks /\ ph.conn = "open"
    /\ ph' = [ph EXCEPT !.client = "finished"]
    /\ UNCHANGED active /\ HFrame

\* the client stops sending and stays silent
ClientStall ==
    /\ ph.client = "sending"
    /\ ph' = [ph EXCEPT !.client = "stalled"]
    /\ UNCHANGED active /\ HFrame

\* shardPushHandler: newRateTimeoutReader starts the timer; UnpackShard:
\* EnterUpload, MkdirAll
PushStart ==
    /\ ph.pc = "idle"
    /\ active' = EnterUpload(BaseName)
    /\ ph' = IF EnterErr(BaseName) # ""
             THEN [ph EXCEPT !.armed = TRUE, !.err = EnterErr(BaseName), !.pc = "close"]
             ELSE [ph EXCEPT !.armed = TRUE, !.dir = TRUE, !.pc = "read"]
    /\ HFrame

\* rateTimeoutReader.Read: rtr.err is set, short circuit
ReadShort ==
    /\ ph.pc = "read" /\ ph.rerr
    /\ ph' = [ph EXCEPT !.err = "timeout", !.pc = "abort"]
    /\ UNCHANGED active /\ HFrame

\* rateTimeoutReader.Read: rtr.rdr.Read is issued; its unsynchronised look at
\* rtr.err may miss what the timer's callback wrote
ReadIssue ==
    /\ ph.pc = "read"
    /\ ph' = [ph EXCEPT !.pc = "inread"]
    /\ UNCHANGED active /\ HFrame

\* rtr.rdr.Read returns bytes, rtr.tmr.Reset(rtr.to)
ReadData ==
    /\ ph.pc = "inread" /\ ph.avail > 0
    /\ ph' = [ph EXCEPT !.avail = @ - 1, !.armed = TRUE, !.pc = "handle"]
    /\ UNCHANGED active /\ HFrame

\* rtr.rdr.Read returns io.EOF: Unpack ends, ExitUpload, WriteHeader(200)
ReadEof ==
    /\ ph.pc = "inread" /\ ph.avail = 0 /\ ph.client = "finished" /\ ph.conn = "open"
    /\ active' = ExitUpload(BaseName)
    /\ ph' = [ph EXCEPT !.pc = "close"]
    /\ HFrame

\* rtr.rdr.Read fails: the connection is closed; rtr.err overrides its error
ReadFail ==
    /\ ph.pc = "inread" /\ ph.avail = 0 /\ ph.conn = "closed"
    /\ ph' = [ph EXCEPT !.err = IF ph.rerr THEN "timeout" ELSE "read", !.pc = "abort"]
    /\ UNCHANGED active /\ HFrame

\* Unpack: the bytes are accepted (HandleFile, updateTags), next read
HandleOk ==
    /\ ph.pc = "handle"
    /\ ph' = [ph EXCEPT !.pc = "read"]
    /\ UNCHANGED active /\ HFrame

\* Unpack: the bytes are refused (bad stream, HandleFile error)
HandleFail ==
    /\ ph.pc = "handle"
    /\ ph' = [ph EXCEPT !.err = "unpack", !.pc = "abort"]
    /\ UNCHANGED active /\ HFrame

\* UnpackShard after Unpack failed: RemoveAll, ExitUpload; serverFail
PushAbort ==
    /\ ph.pc = "abort"
    /\ active' = ExitUpload(BaseName)
    /\ ph' = [ph EXCEPT !.dir = FALSE, !.pc = "close"]
    /\ HFrame

\* shardPushHandler returns: deferred rdr.Close() stops the timer
PushClose ==
    /\ ph.pc = "close"
    /\ ph' = [ph EXCEPT !.armed = FALSE, !.pc = "returned"]
    /\ UNCHANGED active /\ HFrame

\* the timer fires: timeout() sets rtr.err
TimerFire ==
    /\ ph.armed /\ ph.cb = "idle"
    /\ ph' = [ph EXCEPT !.armed = FALSE, !.rerr = TRUE, !.cb = "hijack"]
    /\ UNCHANGED active /\ HFrame

\* timeout(): hj.Hijack(), conn.Close()
TimerHijack ==
    /\ ph.cb = "hijack"
    /\ ph' = [ph EXCEPT !.conn = HijackAndClose(@), !.cb = "idle"]
    /\ UNCHANGED active /\ HFrame

PushSteps ==
    \/ PushStart \/ ReadShort \/ ReadIssue \/ ReadData \/ ReadEof \/ ReadFail
    \/ HandleOk \/ HandleFail \/ PushAbort \/ PushClose

TimerSteps == TimerFire \/ TimerHijack

InitPush ==
    /\ BIdle
    /\ pk = PkInit
    /\ tm = TmInit
    /\ reg = RegInit
    /\ ph = PhInit
    /\ cd = CdInit(BaseName)
    /\ wb = WbIdle
    /\ mx = MxInit
    /\ OIdle

NextPush ==
    \/ ClientSend \/ ClientFinish \/ ClientStall
    \/ PushStart \/ ReadShort \/ ReadIssue \/ ReadData \/ ReadEof \/ ReadFail
    \/ HandleOk \/ HandleFail \/ PushAbort \/ PushClose
    \/ TimerFire \/ TimerHijack

SpecPush == InitPush /\ [][NextPush]_vars

\* the handler's goroutine keeps running, and a pending timer fires and its
\* callback runs; the client is free to stay silent
FairSpecPush == SpecPush /\ WF_vars(PushSteps) /\ WF_vars(TimerSteps)

Full(s) == fs[s].ex /\ \A i \in Suffixes : fs[Suffixed(s, i)].ex

\* C11: when <name> and all of <name>.1 .. <name>.(limit - 1) exist as a push
\* of <name> comes to create its directory, the push fails there: it does not
\* go on to unpack into one of the existing directories.
C11_FullWellPushFails ==
    [][\A p \in Procs :
          (calls[p].op = "unpack" /\ calls[p].pc = "mkdir" /\ Full(calls[p].shard))
          => calls'[p].pc # "unpack"]_vars

InitRoom == Init /\ Cardinality(sealed) + NCalls <= SuffixLimit

SpecRoom == InitRoom /\ [][Next]_vars

\* every push of the run is a push of the one name
OnlyBaseNamePushes == \A p \in Procs : calls[p].op = "unpack" => calls[p].shard = BaseName

\* the pushes that have returned nil
Landed == {p \in Procs : calls[p].op = "unpack" /\ calls[p].pc = "done" /\ calls[p].err = ""}

\* C12: sequential successful pushes of one shard name land in <name>,
\* <name>.1, <name>.2, ... in order, in distinct directories, each holding
\* exactly the contents of its own upload, and no step changes a directory of
\* an earlier push.
C12_SequentialPushesLandApart ==
    /\ [](OnlyBaseNamePushes =>
            /\ \A p \in Landed : fs[calls[p].dir] = [ex |-> TRUE, f |-> [e \in Entries |-> p]]
            /\ \A p \in Landed : \A q \in Landed : calls[p].dir = calls[q].dir => p = q
            /\ sealed = {Chain(j) : j \in 0..(Cardinality(sealed) - 1)}
            /\ \A d \in sealed \ {calls[p].dir : p \in Landed} : fs[d] = OldDir)
    /\ [][OnlyBaseNamePushes => \A d \in sealed : fs'[d] = fs[d]]_vars

\* C12 witness: after an earlier push into <name>, one push has landed in
\* <name>.1 and the next in <name>.2
C12_Witness ==
    /\ OnlyBaseNamePushes
    /\ fs[Chain(0)] = OldDir
    /\ \E p \in Landed : \E q \in Landed :
          calls[p].dir = Chain(1) /\ calls[q].dir = Chain(2)

(***************************************************************************)
(* Shard codec: one Packer whose output is piped into one Unpacker.        *)
(* The callers add the files of a shard in AddOrder, each one optional,    *)
(* until they close the packer; a call that hitType refuses may come at    *)
(* any time before that.  What the packer has written reaches the reader   *)
(* at once (Flush) or stays in the tar and zlib buffers, which             *)
(* CloseWithError throws away.  HandleFile and HandleTagUpdate are taken   *)
(* to succeed.                                                             *)
(***************************************************************************)
CFrame == UNCHANGED <<bvars, pk, tm, reg, ph, wb, mx, ovars>>

Emitted(out) == {FilenameToType(out[i].name) : i \in DOMAIN out}

InOrder(tp) ==
    IF tp \notin Ftypes \/ HitTypeErr(cd.hit, tp)
    THEN TRUE
    ELSE \A t \in Emitted(cd.out) : OrderOf(t) < OrderOf(tp)

\* Packer.AddFile, AddTags, AddWellTags (addByteStream)
PackerAdd(tp) ==
    /\ cd.closed = ""
    /\ InOrder(tp)
    /\ IF Filename(tp, cd.id) = <<>>
       THEN cd' = [cd EXCEPT !.last = [tp |-> tp, err |-> TRUE]]
       ELSE IF HitTypeErr(cd.hit, tp) \/ cd.pipe # "open"
       THEN cd' = [cd EXCEPT !.hit = HitTypeSet(cd.hit, tp),
                             !.last = [tp |-> tp, err |-> TRUE]]
       ELSE cd' = [cd EXCEPT !.hit = HitTypeSet(cd.hit, tp),
                             !.out = Append(cd.out, [name |-> Filename(tp, cd.id),
                                                     data |-> Content(tp)]),
                             !.last = [tp |-> tp, err |-> FALSE]]
    /\ CFrame

\* Packer.Close
PackerClose ==
    /\ cd' = [cd EXCEPT !.pipe = IF cd.pipe = "open" THEN "weof" ELSE cd.pipe,
                        !.closed = IF cd.closed = "" THEN "Close" ELSE cd.closed]
    /\ CFrame

\* Packer.CloseWithError
PackerCloseWithError ==
    /\ \E n \in cd.pos..Len(cd.out) :
          cd' = [cd EXCEPT !.pipe = ClosedWithError(cd.pipe),
                           !.out = IF cd.pipe = "open" THEN SubSeq(cd.out, 1, n) ELSE cd.out,
                           !.closed = IF cd.closed = "" THEN "CloseWithError" ELSE cd.closed]
    /\ CFrame

\* Unpacker.Unpack: one turn of the loop over the entries
UnpackNext ==
    /\ cd.ures = "running"
    /\ cd.pos < Len(cd.out)
    /\ LET e == cd.out[cd.pos + 1]
           ft == FilenameToType(e.name)
       IN IF e.name = <<"tagsupdate">>
          THEN cd' = [cd EXCEPT !.pos = @ + 1,
                                !.ntags = @ + 1,
                                !.uhit = HitTypeSet(cd.uhit, ft),
                                !.ures = IF HitTypeErr(cd.uhit, ft) THEN "err" ELSE @]
          ELSE IF ft = ""
          THEN cd' = [cd EXCEPT !.pos = @ + 1, !.ures = "err"]
          ELSE IF HitTypeErr(cd.uhit, ft)
          THEN cd' = [cd EXCEPT !.pos = @ + 1,
                                !.uhit = HitTypeSet(cd.uhit, ft),
                                !.ures = "err"]
          ELSE cd' = [cd EXCEPT !.pos = @ + 1,
                                !.uhit = HitTypeSet(cd.uhit, ft),
                                !.got = Append(@, [path |-> Filepath(ft, cd.uid),
                                                   data |-> e.data])]
    /\ CFrame

\* Unpacker.Unpack: the end of the stream
UnpackEnd ==
    /\ cd.ures = "running"
    /\ cd.pos = Len(cd.out)
    /\ cd.pipe # "open"
    /\ cd' = [cd EXCEPT !.ures = IF cd.pipe = "werr" \/ AllFilesHitErr(cd.uhit, FALSE)
                                 THEN "err" ELSE "ok"]
    /\ CFrame

InitCodec ==
    /\ BIdle
    /\ pk = PkInit
    /\ tm = TmInit
    /\ reg = RegInit
    /\ ph = PhInit
    /\ \E id \in {BaseName, Suffixed(BaseName, 1)} : cd = CdInit(id)
    /\ wb = WbIdle
    /\ mx = MxInit
    /\ OIdle

NextCodec ==
    \/ \E tp \in Ftypes \cup {"bogus"} : PackerAdd(tp)
    \/ PackerClose
    \/ PackerCloseWithError
    \/ UnpackNext
    \/ UnpackEnd

SpecCodec == InitCodec /\ [][NextCodec]_vars

\* C13: on one packer an add of a type already added fails, and so does the
\* regular accel file after keys or data, or keys or data after the regular
\* accel file; a failed add emits nothing, so that the stream never carries
\* two entries of one type nor both accelerator forms.
C13_RepeatedAddFails ==
    /\ [](/\ \A i \in DOMAIN cd.out : \A j \in DOMAIN cd.out :
                FilenameToType(cd.out[i].name) = FilenameToType(cd.out[j].name) => i = j
          /\ ~("accel" \in Emitted(cd.out) /\ Emitted(cd.out) \cap {"keys", "data"} # {}))
    /\ [][LET added == Emitted(cd.out)
               tp == cd'.last.tp
           IN (/\ cd'.last # cd.last
               /\ \/ tp \in added
                  \/ tp = "accel" /\ added \cap {"keys", "data"} # {}
                  \/ tp \in {"keys", "data"} /\ "accel" \in added)
              => (cd'.last.err /\ cd'.out = cd.out)]_vars

C13_Witness ==
    /\ cd.last = [tp |-> "accel", err |-> TRUE]
    /\ {"store", "keys"} \subseteq Emitted(cd.out)
    /\ "accel" \notin Emitted(cd.out)

\* C14 (as claimed): a well-formed stream is accepted at its end if and only
\* if it contains a store entry, whichever other entries are absent.
C14_OnlyStoreRequired ==
    (cd.closed = "Close" /\ cd.ures # "running") => (cd.ures = "ok" <=> "store" \in Emitted(cd.out))

\* C14 (amended): a well-formed stream is accepted at its end if and only if
\* it contains a store entry and carries keys and data both or neither,
\* whichever other entries are absent.
C14_StoreAndWholePairRequired ==
    (cd.closed = "Close" /\ cd.ures # "running") =>
        (cd.ures = "ok" <=> /\ "store" \in Emitted(cd.out)
                            /\ ("keys" \in Emitted(cd.out)) = ("data" \in Emitted(cd.out)))

C14_Witness ==
    /\ cd.closed = "Close"
    /\ cd.ures = "ok"
    /\ Emitted(cd.out) = {"store", "keys", "data"}

\* C15: when a packer is given store, index, verify and either the regular
\* accel file or the keys and data pair (with or without the tag entries),
\* and is closed, the unpacker at the other end of the pipe hands HandleFile
\* one call per packed file, at the place of that file in the shard directory
\* (keys and data inside <id>.accel, the others beside it, <id> being the
\* shard name without version suffix), with the bytes that were packed, and
\* Unpack returns nil.
C15_RoundTrip ==
    LET E == Emitted(cd.out)
        files == E \ {"tagsupdate"}
        id == TrimVersion(cd.id)
        OnDisk(t) == CASE t = "store" -> Append(id, ".store")
                       [] t = "index" -> Append(id, ".index")
                       [] t = "verify" -> Append(id, ".verify")
                       [] t = "accel" -> Append(id, ".accel")
                       [] t = "keys" -> id \o <<".accel", "/keys">>
                       [] t = "data" -> id \o <<".accel", "/data">>
                       [] t = "tags" -> <<"tags">>
    IN (/\ cd.closed = "Close"
        /\ cd.ures # "running"
        /\ {"store", "index", "verify"} \subseteq E
        /\ ("accel" \in E) # ({"keys", "data"} \subseteq E))
       => /\ cd.ures = "ok"
          /\ Len(cd.got) = Cardinality(files)
          /\ {cd.got[i] : i \in DOMAIN cd.got}
                = {[path |-> OnDisk(t), data |-> <<t, "bytes">>] : t \in files}
          /\ cd.ntags = Cardinality(E \cap {"tagsupdate"})

C15_Witness ==
    /\ cd.closed = "Close"
    /\ cd.ures = "ok"
    /\ cd.id = Suffixed(BaseName, 1)
    /\ Emitted(cd.out) = {"tagsupdate", "tags", "store", "index", "verify", "keys", "data"}
    /\ Len(cd.got) = 6

\* C16: when the packer is ended with CloseWithError rather than Close, the
\* Unpack reading its stream returns an error, whatever was written before,
\* a complete store entry included.
C16_AbortedStreamIsAnError ==
    (cd.closed = "CloseWithError" /\ cd.ures # "running") => cd.ures = "err"

C16_Witness ==
    /\ cd.closed = "CloseWithError"
    /\ cd.ures = "err"
    /\ Emitted(cd.out) = {"store"}
    /\ Len(cd.got) = 1

(***************************************************************************)
(* Webserver: one request through authChain.Handler and its endpoint       *)
(* handler.  The router has chosen the endpoint; whether the {uuid} parses *)
(* and the body decodes is drawn when the handler reaches it.              *)
(***************************************************************************)
WFrame == UNCHANGED <<bvars, pk, tm, reg, ph, cd, mx, ovars>>

Answer(code) == [wb EXCEPT !.status = code, !.pc = "done"]

\* a request arrives at an authenticated route
WebRecv ==
    /\ wb.pc = "idle"
    /\ \E e \in Endpoints : \E c \in UrlCids : \E t \in Tokens :
          wb' = [WbIdle EXCEPT !.req = [ep |-> e.h, cid |-> c, tok |-> t], !.pc = "auth"]
    /\ WFrame

\* baseChain.Handler: bc.bf is AuthUser; a written response ends the chain
WebAuth ==
    /\ wb.pc = "auth"
    /\ wb' = IF AuthRequestErr(wb.req.tok)
             THEN Answer(401)
             ELSE [wb EXCEPT !.cust = wb.req.tok.num, !.pc = "handler"]
    /\ WFrame

\* the endpoint handler up to its call into the backend
WebHandle ==
    /\ wb.pc = "handler"
    /\ \E uuidOk \in BOOLEAN : \E body \in {"ok", "undecodable", "badtimes"} :
          LET e == EndpointOf(wb.req.ep)
              custID == ParseUint(wb.req.cid)
              r == IF custID = -1 THEN Answer(400)
                   ELSE IF e.uuid /\ ~uuidOk THEN Answer(400)
                   ELSE IF WrongCustomer(custID, wb.cust) THEN Answer(400)
                   ELSE IF e.body /\ body = "undecodable" THEN Answer(500)
                   ELSE IF e.h = "getWellShardsInTimeframe" /\ body = "badtimes" THEN Answer(400)
                   ELSE [wb EXCEPT !.pc = "backend"]
          IN wb' = [r EXCEPT !.invoked = TRUE]
    /\ WFrame

\* the call into the ShardHandler and the answer made from its result
WebBackend ==
    /\ wb.pc = "backend"
    /\ \E ok \in BOOLEAN :
          wb' = [wb EXCEPT !.backend = Append(@, [call |-> EndpointOf(wb.req.ep).call,
                                                  cid |-> ParseUint(wb.req.cid)]),
                           !.status = IF ok THEN 200 ELSE 500,
                           !.pc = "done"]
    /\ WFrame

InitWeb ==
    /\ BIdle
    /\ pk = PkInit
    /\ tm = TmInit
    /\ reg = RegInit
    /\ ph = PhInit
    /\ cd = CdInit(BaseName)
    /\ wb = WbIdle
    /\ mx = MxInit
    /\ OIdle

NextWeb == WebRecv \/ WebAuth \/ WebHandle \/ WebBackend

SpecWeb == InitWeb /\ [][NextWeb]_vars

\* C17: a request that passes authentication and whose URL customer id is
\* not the customer number of its token is answered 400 and makes no call
\* into the storage backend, on each of the eight authenticated endpoints.
C17_WrongCustomerNeverReachesBackend ==
    (/\ wb.pc # "idle"
     /\ ~AuthRequestErr(wb.req.tok)
     /\ wb.req.cid \notin {"1", "01"} \/ wb.req.tok.num # 1
     /\ wb.req.cid # "2" \/ wb.req.tok.num # 2)
    => /\ wb.backend = <<>>
       /\ wb.pc # "backend"
       /\ wb.pc = "done" => wb.status = 400

C17_Witness ==
    /\ wb.pc = "done"
    /\ wb.invoked
    /\ wb.req.ep = "shardPushHandler"
    /\ wb.req.cid = "2"
    /\ wb.cust = 1
    /\ wb.status = 400

\* C18: a request without Authorization header, with a malformed token, a
\* token signed with a method other than HMAC or with another secret, or a
\* token without CustomerNumber claim is answered 401, and neither the
\* endpoint handler nor the backend is called for it.
C18_UnauthenticatedNeverReachesHandler ==
    (/\ wb.pc # "idle"
     /\ \/ wb.req.tok.hdr = ""
        \/ wb.req.tok.hdr # "Bearer" \/ ~wb.req.tok.jwt
        \/ wb.req.tok.alg = "RS256"
        \/ wb.req.tok.key = "other"
        \/ wb.req.tok.claim = "absent")
    => /\ ~wb.invoked
       /\ wb.backend = <<>>
       /\ wb.pc \in {"auth", "done"}
       /\ wb.pc = "done" => wb.status = 401

C18_Witness ==
    /\ wb.pc = "done"
    /\ wb.status = 401
    /\ wb.req.tok = [hdr |-> "Bearer", jwt |-> TRUE, alg |-> "RS256",
                     key |-> "other", claim |-> "number", num |-> 1]
    /\ wb.req.cid = "1"

\* C19: once Close has been called, every operation on the instance returns
\* the "not active" error and leaves the maps, the counter and the file as
\* they were.
C19_ClosedManagerRefusesAll ==
    [][(~tm.d.active /\ tm'.last # tm.last /\ tm'.last.op # "New")
         => (tm'.last.na /\ tm'.d = tm.d)]_vars

(***************************************************************************)
(* Tag manager: goroutines calling the operations of one instance.  A call *)
(* is in "lock" while it waits for tm.mtx and in "maps" from its first to  *)
(* its last access of tm.tags and tm.tagKeys.                              *)
(***************************************************************************)
\* a goroutine calls an operation: tm.mtx.Lock() comes first, where there is one
MxCall(g, op) ==
    /\ mx.pc[g] = "idle"
    /\ mx' = [mx EXCEPT !.op[g] = op,
                        !.pc[g] = IF LocksMutex(op) THEN "lock" ELSE "maps"]
    /\ UNCHANGED <<bvars, pk, tm, reg, ph, cd, wb, ovars>>

\* tm.mtx.Lock() returns
MxLock(g) ==
    /\ mx.pc[g] = "lock"
    /\ mx.holder = 0
    /\ mx' = [mx EXCEPT !.holder = g, !.pc[g] = "maps"]
    /\ UNCHANGED <<bvars, pk, tm, reg, ph, cd, wb, ovars>>

\* the operation returns: tm.mtx.Unlock(), where it was taken
MxReturn(g) ==
    /\ mx.pc[g] = "maps"
    /\ mx' = [mx EXCEPT !.holder = IF mx.holder = g THEN 0 ELSE @,
                        !.pc[g] = "idle",
                        !.op[g] = ""]
    /\ UNCHANGED <<bvars, pk, tm, reg, ph, cd, wb, ovars>>

InitMx ==
    /\ BIdle
    /\ pk = PkInit
    /\ tm = TmInit
    /\ reg = RegInit
    /\ ph = PhInit
    /\ cd = CdInit(BaseName)
    /\ wb = WbIdle
    /\ mx = MxInit
    /\ OIdle

NextMx ==
    \/ \E g \in Goroutines : \E op \in TagManOps : MxCall(g, op)
    \/ \E g \in Goroutines : MxLock(g)
    \/ \E g \in Goroutines : MxReturn(g)

SpecMx == InitMx /\ [][NextMx]_vars

\* C20: an operation is among the maps of the instance only while it holds
\* the instance mutex, so that no two operations are among them at once.
C20_MapsOnlyUnderMutex ==
    /\ \A g \in Goroutines : mx.pc[g] = "maps" => mx.holder = g
    /\ Cardinality({g \in Goroutines : mx.pc[g] = "maps"}) <= 1

\* C21: in every reachable state each stored name is valid per CheckTag
\* (non-empty, no whitespace, no '='), and each pair other than the two
\* reserved ones has its id in [1, 0xFFFE].
C21_StoredNamesAndIdsValid ==
    /\ \A n \in DOMAIN tm.d.tags : CheckTag(n)
    /\ \A i \in DOMAIN tm.d.tagKeys : CheckTag(tm.d.tagKeys[i])
    /\ \A n \in DOMAIN tm.d.tags \ {"default", "gravwell"} :
          tm.d.tags[n] \in 1..(GravwellTagId - 1)

\* C22: when an instance on which every call since New has succeeded is
\* closed and New is called on its file, New succeeds and the maps of the new
\* instance are those the closed one had.
C22_ReopenKeepsTagSet ==
    [][(tm.last.op = "Close" /\ tm.ok /\ tm'.last.op = "New")
         => (/\ ~tm'.last.err
             /\ tm'.d.tags = tm.d.tags
             /\ tm'.d.tagKeys = tm.d.tagKeys)]_vars

MergePairs == {TagPair(n, v) : n \in {"a", "b", "a b"}, v \in {1, 2, GravwellTagId}}

MergeCall(s) ==
    /\ LET r == MergeRes(tm.d, s)
           again == tm.last.op = "Merge" /\ tm.last.arg = s
       IN tm' = [d |-> r.d,
                 last |-> [op |-> "Merge", arg |-> s, pre |-> tm.d,
                           updated |-> r.updated, err |-> r.err,
                           again |-> again,
                           pupdated |-> again /\ tm.last.updated,
                           perr |-> again /\ tm.last.err],
                 ok |-> tm.ok /\ ~r.err]
    /\ TFrame

InitMerge ==
    /\ BIdle
    /\ pk = PkInit
    /\ \E s \in SeqsUpTo(MergePairs, MaxList) :
          /\ ~ResetOverrideRes(TmNew, s).err
          /\ tm = [d |-> ResetOverrideRes(TmNew, s).d,
                   last |-> [op |-> "ResetOverride", arg |-> s, pre |-> TmNew,
                             updated |-> FALSE, err |-> FALSE, again |-> FALSE,
                             pupdated |-> FALSE, perr |-> FALSE],
                   ok |-> TRUE]
    /\ reg = RegInit
    /\ ph = PhInit
    /\ cd = CdInit(BaseName)
    /\ wb = WbIdle
    /\ mx = MxInit
    /\ OIdle

NextMerge == \E s \in SeqsUpTo(MergePairs, MaxList) : MergeCall(s)

SpecMerge == InitMerge /\ [][NextMerge]_vars

C25_MergePostcondition ==
    (tm.last.op = "Merge" /\ ~tm.last.err) =>
        LET pre == tm.last.pre
            in == tm.last.arg
        IN /\ \A i \in DOMAIN in :
                 /\ (Has(pre.tags, in[i].Name) \/ Has(pre.tagKeys, in[i].Value))
                       => /\ Has(pre.tags, in[i].Name)
                          /\ pre.tags[in[i].Name] = in[i].Value
                          /\ Has(pre.tagKeys, in[i].Value)
                          /\ pre.tagKeys[in[i].Value] = in[i].Name
                 /\ Has(tm.d.tags, in[i].Name)
                 /\ tm.d.tags[in[i].Name] = in[i].Value
                 /\ Has(tm.d.tagKeys, in[i].Value)
                 /\ tm.d.tagKeys[in[i].Value] = in[i].Name
           /\ \A n \in DOMAIN pre.tags : Has(tm.d.tags, n) /\ tm.d.tags[n] = pre.tags[n]
           /\ \A k \in DOMAIN pre.tagKeys :
                 Has(tm.d.tagKeys, k) /\ tm.d.tagKeys[k] = pre.tagKeys[k]
           /\ tm.last.updated = (\E i \in DOMAIN in : ~Has(pre.tags, in[i].Name))

C25_Witness ==
    /\ tm.last.op = "Merge"
    /\ ~tm.last.err
    /\ tm.last.updated
    /\ Len(tm.last.arg) = 2
    /\ \E i \in DOMAIN tm.last.arg : Has(tm.last.pre.tags, tm.last.arg[i].Name)
    /\ \E i \in DOMAIN tm.last.arg : ~Has(tm.last.pre.tags, tm.last.arg[i].Name)

(***************************************************************************)
(* Client.PushShard: the call, asyncPackShard writing into the packer,     *)
(* asyncPushShard reading the packer as the body of its request.           *)
(***************************************************************************)
LFrame == UNCHANGED <<bvars, pk, tm, reg, ph, cd, wb, mx, pt, fb, sh, si, nvars>>

\* a write of the pack task starts: the context wrapper lets it through to
\* the pipe.  Writes 1 .. PushChunks come from the Add calls, the one after
\* them from Close.
PackWriteBegin ==
    /\ cl.ppc = "add"
    /\ ~cl.pkctx
    /\ cl' = [cl EXCEPT !.ppc = "write"]
    /\ LFrame

\* the request reads what the pack task is writing: the write returns and
\* the read ticks
Transfer ==
    /\ cl.ppc = "write"
    /\ cl.pipe = "open"
    /\ cl.rpc = "reading"
    /\ cl' = [cl EXCEPT !.k = @ + 1,
                        !.ppc = IF cl.k = PushChunks THEN "closing" ELSE "add",
                        !.tick = TRUE]
    /\ LFrame

\* a write of the pack task fails (the context is done, or the pipe is
\* closed): an Add call sends the error and goes on to CloseWithError, Close
\* returns the error and it is sent
PackWriteErr ==
    /\ \/ cl.ppc = "add" /\ cl.pkctx
       \/ cl.ppc = "write" /\ cl.pipe # "open"
    /\ cl' = [cl EXCEPT !.packChan = "closedpipe", !.packVal = "closedpipe",
                        !.ppc = IF cl.k = PushChunks THEN "done" ELSE "cwe"]
    /\ LFrame

\* an Add call fails on its own (a file of the shard cannot be read)
PackAddErr ==
    /\ cl.ppc = "add"
    /\ cl.k < PushChunks
    /\ cl' = [cl EXCEPT !.packChan = "packerr", !.packVal = "packerr", !.ppc = "cwe"]
    /\ LFrame

\* pkr.CloseWithError(err) after a failed Add
PackCloseWithErr ==
    /\ cl.ppc = "cwe"
    /\ cl' = [cl EXCEPT !.pipe = IF @ = "open" THEN cl.packVal ELSE @,
                        !.pkctx = TRUE,
                        !.ppc = "done"]
    /\ LFrame

\* Close: p.pwtr.Close() returns nil, and nil is sent
PackCloseEnd ==
    /\ cl.ppc = "closing"
    /\ cl' = [cl EXCEPT !.pipe = IF @ = "open" THEN "eof" ELSE @,
                        !.packChan = "nil", !.packVal = "nil",
                        !.ppc = "done"]
    /\ LFrame

\* the request reads the end of its body
ReqEof ==
    /\ cl.rpc = "reading"
    /\ cl.pipe = "eof"
    /\ cl' = [cl EXCEPT !.rpc = "eof"]
    /\ LFrame

\* the request's read of its body fails: the request fails
ReqBodyErr ==
    /\ cl.rpc = "reading"
    /\ cl.pipe \notin {"open", "eof"}
    /\ cl' = [cl EXCEPT !.rpc = "done", !.reqRespChan = "bodyerr", !.reqVal = "bodyerr"]
    /\ LFrame

\* the server answers 200 to the complete body
ReqOk ==
    /\ cl.rpc = "eof"
    /\ cl' = [cl EXCEPT !.rpc = "done", !.reqRespChan = "nil", !.reqVal = "nil"]
    /\ LFrame

\* the request fails on its own (connection, status)
ReqFail ==
    /\ cl.rpc \in {"reading", "eof"}
    /\ cl' = [cl EXCEPT !.rpc = "done", !.reqRespChan = "reqerr", !.reqVal = "reqerr"]
    /\ LFrame

\* the request's context is done: Do returns its error
ReqCtx ==
    /\ cl.rpc \in {"reading", "eof"}
    /\ cl.ctx
    /\ cl' = [cl EXCEPT !.rpc = "done", !.reqRespChan = "ctxerr", !.reqVal = "ctxerr"]
    /\ LFrame

\* the caller cancels the context it passed
CallerCancel ==
    /\ cl.pc # "returned"
    /\ ~cl.ctx
    /\ cl' = [cl EXCEPT !.ctx = TRUE]
    /\ LFrame

\* case err = <-packChan
SelectPack ==
    /\ cl.pc = "select"
    /\ cl.packChan \notin {"empty", "taken", "closed"}
    /\ cl' = [cl EXCEPT !.packChan = "taken",
                        !.pc = "drain",
                        !.first = IF cl.packChan = "nil" THEN "packnil" ELSE "packerr",
                        !.err = IF cl.packChan = "nil" THEN "" ELSE cl.packChan,
                        !.drain = <<[ch |-> "req", keep |-> cl.packChan = "nil"]>>]
    /\ LFrame

\* case err = <-reqRespChan
SelectReq ==
    /\ cl.pc = "select"
    /\ cl.reqRespChan \notin {"empty", "taken", "closed"}
    /\ LET c == [cl EXCEPT !.reqRespChan = "taken",
                           !.pc = "drain",
                           !.first = IF cl.reqRespChan = "nil" THEN "reqnil" ELSE "reqerr",
                           !.err = IF cl.reqRespChan = "nil" THEN "" ELSE cl.reqRespChan,
                           !.drain = <<[ch |-> "pack", keep |-> cl.reqRespChan = "nil"]>>]
       IN cl' = IF cl.reqRespChan = "nil" THEN c ELSE Cancel(c)
    /\ LFrame

\* case <-tckr
SelectTick ==
    /\ cl.pc = "select"
    /\ cl.tick
    /\ cl' = [cl EXCEPT !.tick = FALSE]
    /\ LFrame

\* case <-tmr.C
SelectTimer ==
    /\ cl.pc = "select"
    /\ cl' = Cancel([cl EXCEPT !.pc = "drain",
                               !.first = "timer",
                               !.err = "timeout",
                               !.ctx = TRUE,
                               !.drain = <<[ch |-> "req", keep |-> FALSE],
                                           [ch |-> "pack", keep |-> FALSE]>>])
    /\ LFrame

\* case <-ctx.Done()
SelectCtx ==
    /\ cl.pc = "select"
    /\ cl.ctx
    /\ cl' = Cancel([cl EXCEPT !.pc = "drain",
                               !.first = "ctx",
                               !.drain = <<[ch |-> "pack", keep |-> FALSE],
                                           [ch |-> "req", keep |-> TRUE]>>])
    /\ LFrame

\* a receive inside a case
Drain ==
    /\ cl.pc = "drain"
    /\ cl.drain # <<>>
    /\ LET h == Head(cl.drain)
           v == IF h.ch = "pack" THEN cl.packChan ELSE cl.reqRespChan
       IN /\ v \notin {"empty", "taken", "closed"}
          /\ cl' = [cl EXCEPT !.drain = Tail(@),
                              !.err = IF h.keep THEN (IF v = "nil" THEN "" ELSE v) ELSE @,
                              !.packChan = IF h.ch = "pack" THEN "taken" ELSE @,
                              !.reqRespChan = IF h.ch = "req" THEN "taken" ELSE @]
    /\ LFrame

\* close(reqRespChan); close(packChan); return err
CloseReturn ==
    /\ cl.pc = "drain"
    /\ cl.drain = <<>>
    /\ cl' = [cl EXCEPT !.pc = "returned",
                        !.packChan = IF @ = "taken" THEN "closed" ELSE @,
                        !.reqRespChan = IF @ = "taken" THEN "closed" ELSE @]
    /\ LFrame

PushShardSteps == SelectPack \/ SelectReq \/ SelectTick \/ SelectCtx \/ Drain \/ CloseReturn

PackSteps ==
    \/ PackWriteBegin \/ Transfer \/ PackWriteErr \/ PackCloseWithErr \/ PackCloseEnd

ReqSteps == ReqEof \/ ReqBodyErr \/ ReqOk \/ ReqCtx

InitClient ==
    /\ BIdle
    /\ pk = PkInit
    /\ tm = TmInit
    /\ reg = RegInit
    /\ ph = PhInit
    /\ cd = CdInit(BaseName)
    /\ wb = WbIdle
    /\ mx = MxInit
    /\ OIdle

NextClient ==
    \/ PackWriteBegin \/ Transfer \/ PackWriteErr \/ PackAddErr
    \/ PackCloseWithErr \/ PackCloseEnd
    \/ ReqEof \/ ReqBodyErr \/ ReqOk \/ ReqFail \/ ReqCtx
    \/ CallerCancel
    \/ SelectPack \/ SelectReq \/ SelectTick \/ SelectTimer \/ SelectCtx
    \/ Drain \/ CloseReturn

SpecClient == InitClient /\ [][NextClient]_vars

\* the three goroutines keep running; a request whose body has ended, or has
\* failed, or whose context is done, comes back; files may or may not fail,
\* the connection may or may not fail, the timer and the caller are free
FairSpecClient ==
    SpecClient /\ WF_vars(PushShardSteps) /\ WF_vars(PackSteps) /\ WF_vars(ReqSteps)

KFrame == UNCHANGED <<bvars, pk, tm, reg, ph, cd, wb, mx, cl, fb, sh, si, nvars>>

\* closePipeline returns r: the deferred Unlock, and in CloseWithTimeout the
\* deferred tmr.Stop()
Returned(p, c, r) ==
    [p EXCEPT !.pc[c] = "returned", !.res[c] = r, !.w[c] = "", !.mtx = "",
              !.tmr = IF c = "cwt" /\ @ = "armed" THEN "stopped" ELSE @]

\* CloseWithTimeout(to), to > 0: time.AfterFunc(to, p.Cancel)
CwtStart ==
    /\ pt.pc["cwt"] = "idle"
    /\ pt' = [pt EXCEPT !.pc["cwt"] = "lock", !.tmr = "armed"]
    /\ KFrame

\* Close, after CloseWithTimeout has returned
LaterClose ==
    /\ pt.pc["cwt"] = "returned"
    /\ pt.pc["close"] = "idle"
    /\ pt' = [pt EXCEPT !.pc["close"] = "lock"]
    /\ KFrame

\* closePipeline: p.Lock()
ClosersLock(c) ==
    /\ pt.pc[c] = "lock"
    /\ pt.mtx = ""
    /\ pt' = [pt EXCEPT !.mtx = c, !.pc[c] = "tar"]
    /\ KFrame

\* p.twtr.Close(): nil on a closed tar writer; else the footer goes to the
\* zlib writer, which first writes its header if it has not, fails if it
\* holds an error, and else buffers
TarClose(c) ==
    /\ pt.pc[c] = "tar"
    /\ pt' = IF pt.twclosed THEN [pt EXCEPT !.pc[c] = "zclose"]
             ELSE IF ~pt.hdr
             THEN [pt EXCEPT !.twclosed = TRUE, !.hdr = TRUE, !.pc[c] = "begin", !.w[c] = "hdr"]
             ELSE IF pt.zerr THEN Returned([pt EXCEPT !.twclosed = TRUE], c, "err")
             ELSE [pt EXCEPT !.twclosed = TRUE, !.pc[c] = "zclose"]
    /\ KFrame

\* p.zwtr.Close(): the error it holds, else the end of the stream (once),
\* then the checksum
ZlibClose(c) ==
    /\ pt.pc[c] = "zclose"
    /\ pt' = IF pt.zerr THEN Returned(pt, c, "err")
             ELSE [pt EXCEPT !.pc[c] = "begin",
                             !.w[c] = IF pt.zclosed THEN "sum" ELSE "data"]
    /\ KFrame

\* a write reaches the context wrapper: it fails when the context is done,
\* else it goes to the pipe
WriteBegin(c) ==
    /\ pt.pc[c] = "begin"
    /\ pt' = IF pt.ctx THEN Returned([pt EXCEPT !.zerr = TRUE], c, "err")
             ELSE [pt EXCEPT !.pc[c] = "blocked"]
    /\ KFrame

\* the reader reads what the call writes
WriteRead(c) ==
    /\ pt.pc[c] = "blocked"
    /\ pt.pipe = "open"
    /\ pt' = [pt EXCEPT !.reads = TRUE,
                        !.zclosed = @ \/ pt.w[c] = "data",
                        !.pc[c] = CASE pt.w[c] = "hdr" -> "zclose"
                                    [] pt.w[c] = "data" -> "begin"
                                    [] OTHER -> "pclose",
                        !.w[c] = IF @ = "data" THEN "sum" ELSE ""]
    /\ KFrame

\* the pipe is closed: the write fails
WriteFail(c) ==
    /\ pt.pc[c] = "blocked"
    /\ pt.pipe # "open"
    /\ pt' = Returned([pt EXCEPT !.zerr = TRUE], c, "err")
    /\ KFrame

\* err = p.pwtr.Close()
PipeClose(c) ==
    /\ pt.pc[c] = "pclose"
    /\ pt' = Returned([pt EXCEPT !.pipe = PipeCloseWithError(@, "eof")], c, "")
    /\ KFrame

\* the timer fires: p.Cancel starts
CancelFires ==
    /\ pt.tmr = "armed"
    /\ pt' = [pt EXCEPT !.tmr = "cf"]
    /\ KFrame

\* Cancel: p.cf()
CancelCf ==
    /\ pt.tmr = "cf"
    /\ pt' = [pt EXCEPT !.ctx = TRUE, !.tmr = "closepipe"]
    /\ KFrame

\* Cancel: p.pwtr.CloseWithError(errors.New("Cancelled"))
CancelClosePipe ==
    /\ pt.tmr = "closepipe"
    /\ pt' = [pt EXCEPT !.pipe = PipeCloseWithError(@, "Cancelled"), !.tmr = "done"]
    /\ KFrame

CloserSteps ==
    \E c \in Closers :
        \/ ClosersLock(c) \/ TarClose(c) \/ ZlibClose(c)
        \/ WriteBegin(c) \/ WriteFail(c) \/ PipeClose(c)

CancelSteps == CancelFires \/ CancelCf \/ CancelClosePipe

InitPacker ==
    /\ BIdle
    /\ pk = PkInit
    /\ tm = TmInit
    /\ reg = RegInit
    /\ ph = PhInit
    /\ cd = CdInit(BaseName)
    /\ wb = WbIdle
    /\ mx = MxInit
    /\ cl = ClInit
    /\ \E h \in BOOLEAN : pt = PtInit(h)
    /\ fb = FtInit(NoFile)
    /\ sh = ShInit(NoWell)
    /\ si = SiInit(Epoch)
    /\ NIdle

NextPacker ==
    \/ CwtStart \/ LaterClose
    \/ \E c \in Closers :
          \/ ClosersLock(c) \/ TarClose(c) \/ ZlibClose(c)
          \/ WriteBegin(c) \/ WriteRead(c) \/ WriteFail(c) \/ PipeClose(c)
    \/ CancelFires \/ CancelCf \/ CancelClosePipe

SpecPacker == InitPacker /\ [][NextPacker]_vars

\* the calls keep running and a pending timer fires; the reader is free
FairSpecPacker == SpecPacker /\ WF_vars(CloserSteps) /\ WF_vars(CancelSteps)

\* C27: a CloseWithTimeout that was called returns; when it has returned and
\* nothing has read the packer, it returned an error and the Cancel of its
\* timer had tripped the context; a Close called after such a
\* CloseWithTimeout returns, with an error.
C27_CloseWithTimeoutReturns ==
    /\ (pt.pc["cwt"] = "lock") ~> (pt.pc["cwt"] = "returned")
    /\ [](pt.pc["cwt"] = "returned" /\ ~pt.reads
            => pt.res["cwt"] = "err" /\ pt.ctx)
    /\ (pt.pc["close"] = "lock" /\ pt.res["cwt"] = "err") ~> (pt.pc["close"] = "returned")
    /\ [](pt.pc["close"] = "returned" /\ pt.res["cwt"] = "err" => pt.res["close"] = "err")

\* C27 witness: a new packer that nothing read: CloseWithTimeout returned an
\* error after the Cancel, and so did the Close after it
C27_Witness ==
    /\ ~pt.reads
    /\ pt.tmr = "done"
    /\ pt.pipe = "Cancelled"
    /\ pt.pc["cwt"] = "returned" /\ pt.res["cwt"] = "err"
    /\ pt.pc["close"] = "returned" /\ pt.res["close"] = "err"

(***************************************************************************)
(* FTP backend: GetTags, SyncTags, and UnpackShard of a stream that holds  *)
(* a tagsupdate entry, one after the other.  Each opens the tag manager on *)
(* the local tags.dat and releases it.                                     *)
(***************************************************************************)
FFrame == UNCHANGED <<bvars, pk, tm, reg, ph, cd, wb, mx, cl, pt, sh, si, nvars>>

\* the lists of pairs an indexer sends
FtpLists == SeqsUpTo({TagPair(n, v) : n \in {"a", "b"}, v \in {1, 2}}, MaxList)

\* GetTags: ensureTagsDat (its error is dropped), GetTagMan, TagSet
FtpGetTags(o) ==
    /\ o \in RetrOutcomes(fb)
    /\ LET e == EnsureTagsDat(fb, o)
           n == NewRes(e.local.lines)
       IN fb' = [fb EXCEPT !.local = e.local,
                           !.leftover = e.leftover,
                           !.last = [op |-> "GetTags", fetch |-> o, merged |-> FALSE,
                                     onLeftover |-> fb.leftover, err |-> n.err]]
    /\ FFrame

\* SyncTags: ensureTagsDat (its error is dropped), GetTagMan, Merge, TagSet
FtpSyncTags(s, o) ==
    /\ o \in RetrOutcomes(fb)
    /\ LET e == EnsureTagsDat(fb, o)
           n == NewRes(e.local.lines)
           m == MergeRes(n.d, s)
       IN fb' = [fb EXCEPT !.local = IF n.err THEN e.local ELSE FileOf(m.d.file),
                           !.leftover = e.leftover,
                           !.last = [op |-> "SyncTags", fetch |-> o,
                                     merged |-> ~n.err /\ ~m.err,
                                     onLeftover |-> fb.leftover,
                                     err |-> n.err \/ m.err]]
    /\ FFrame

\* UnpackShard: ensureTagsDat (its error is dropped), then the unpacker calls
\* HandleTagUpdate: ensureTagsDat, GetTagMan, Merge, ReleaseTagMan, pushTagsDat
\* (stor: the Stor succeeds)
FtpUnpackShard(s, o, stor) ==
    /\ o \in RetrOutcomes(fb)
    /\ LET e == EnsureTagsDat(fb, o)
           n == NewRes(e.local.lines)
           m == MergeRes(n.d, s)
           merged == ~n.err /\ ~m.err
           loc == IF n.err THEN e.local ELSE FileOf(m.d.file)
       IN fb' = [fb EXCEPT !.local = loc,
                           !.leftover = e.leftover,
                           !.remote = IF merged /\ stor THEN loc ELSE @,
                           !.last = [op |-> "UnpackShard", fetch |-> o,
                                     merged |-> merged,
                                     onLeftover |-> fb.leftover,
                                     err |-> ~merged \/ ~stor]]
    /\ FFrame

InitFtp ==
    /\ BIdle
    /\ pk = PkInit
    /\ tm = TmInit
    /\ reg = RegInit
    /\ ph = PhInit
    /\ cd = CdInit(BaseName)
    /\ wb = WbIdle
    /\ mx = MxInit
    /\ cl = ClInit
    /\ pt = PtInit(FALSE)
    /\ \E r \in {NoFile, FileOf(StaticTagPairs \o <<TagPair("a", 1)>>)} : fb = FtInit(r)
    /\ sh = ShInit(NoWell)
    /\ si = SiInit(Epoch)
    /\ NIdle

NextFtp ==
    \/ \E o \in {"none", "ok", "551", "fail"} : FtpGetTags(o)
    \/ \E s \in FtpLists, o \in {"none", "ok", "551", "fail"} : FtpSyncTags(s, o)
    \/ \E s \in FtpLists, o \in {"none", "ok", "551", "fail"}, stor \in BOOLEAN :
          FtpUnpackShard(s, o, stor)

SpecFtp == InitFtp /\ [][NextFtp]_vars

\* C28: when an operation of the FTP backend has merged tags and returned
\* without error, tags.dat on the server is the local tags.dat.
C28_MergedTagsStoredBack ==
    (fb.last.merged /\ ~fb.last.err) => fb.remote = fb.local

\* C29: an operation whose fetch of tags.dat failed with an error other than
\* 551 returns an error, and so does an operation that finds the empty file
\* such a fetch left behind.
C29_FailedFetchIsFatal ==
    (fb.last.fetch = "fail" \/ fb.last.onLeftover) => fb.last.err

(***************************************************************************)
(* Timeframe queries on one well directory.                                *)
(***************************************************************************)
SFrame == UNCHANGED <<bvars, pk, tm, reg, ph, cd, wb, mx, cl, pt, fb, si, nvars>>

\* the instants at, just before and just after the bounds of the shards
TimePoints == {v * shardQuant + d : v \in 0..(MaxShard + 1), d \in {-1, 0, 1}}

Wells == [ents : [ShardIds -> {"none", "dir", "file"}], junk : BOOLEAN]

\* GetShardsInTimeframe: every entry of the listing whose name parses goes
\* through the switch
GetShardsInTimeframe(tf) ==
    /\ sh' = [sh EXCEPT !.tf = tf,
                        !.called = TRUE,
                        !.shards = {v \in ShardIds :
                                      /\ sh.well.ents[v] # "none"
                                      /\ InTimeframe(ShardNameToDateRange(v), tf)}]
    /\ SFrame

\* GetWellTimeframe: every entry of the listing whose name parses counts
GetWellTimeframe ==
    /\ sh' = [sh EXCEPT !.wcalled = TRUE,
                        !.wtf = WellTimeframe({v \in ShardIds : sh.well.ents[v] # "none"})]
    /\ SFrame

InitShards ==
    /\ BIdle
    /\ pk = PkInit
    /\ tm = TmInit
    /\ reg = RegInit
    /\ ph = PhInit
    /\ cd = CdInit(BaseName)
    /\ wb = WbIdle
    /\ mx = MxInit
    /\ cl = ClInit
    /\ pt = PtInit(FALSE)
    /\ fb = FtInit(NoFile)
    /\ \E w \in Wells : sh = ShInit(w)
    /\ si = SiInit(Epoch)
    /\ NIdle

NextShards ==
    \/ \E qs \in TimePoints, qe \in TimePoints : GetShardsInTimeframe([Start |-> qs, End |-> qe])
    \/ GetWellTimeframe

SpecShards == InitShards /\ [][NextShards]_vars

C31_ListingsIgnoreFiles ==
    /\ sh.called => \A v \in sh.shards : sh.well.ents[v] = "dir"
    /\ sh.wcalled =>
          LET D == {v \in ShardIds : sh.well.ents[v] = "dir"}
          IN IF D = {} THEN sh.wtf.zero
             ELSE /\ ~sh.wtf.zero
                  /\ \E v \in D : sh.wtf.Start = v * 131072
                  /\ \A v \in D : sh.wtf.Start <= v * 131072
                  /\ \E v \in D : sh.wtf.End = (v + 1) * 131072
                  /\ \A v \in D : sh.wtf.End >= (v + 1) * 131072

(***************************************************************************)
(* From an instant to its shard id, to the shard's name, to the range of   *)
(* the name.                                                               *)
(***************************************************************************)
IFrame == UNCHANGED <<bvars, pk, tm, reg, ph, cd, wb, mx, cl, pt, fb, sh, nvars>>

\* the shards the instants are taken from: around the Unix epoch, around
\* year 1, and around the shard 769f2 of the tests
UnixShards ==
    {b + k : b \in {0, -unixToInternal.hi - 1, ParseDigits(<<7, 6, 9, 15, 2>>) - unixToInternal.hi - 1},
             k \in (-MaxShard)..MaxShard}

\* the seconds within a shard: both ends, and both sides of the carry of the
\* conversion from Unix time
UnixOffsets ==
    {0, 1, shardQuant - unixToInternal.lo - 1, shardQuant - unixToInternal.lo, shardQuant - 1}

ShardIdOf ==
    /\ si.pc = "t"
    /\ si' = [si EXCEPT !.s = GetShardId(si.t), !.pc = "s"]
    /\ IFrame

\* the name the shard is stored under: the id without its low 17 bits, in hex
ShardNameOf ==
    /\ si.pc = "s"
    /\ si' = [si EXCEPT !.name = FormatHex(si.s.hi), !.pc = "name"]
    /\ IFrame

RangeOfName ==
    /\ si.pc = "name"
    /\ si' = [si EXCEPT !.r = ShardNameToDateRangeSec(si.name), !.pc = "range"]
    /\ IFrame

InitInstant ==
    /\ BIdle
    /\ pk = PkInit
    /\ tm = TmInit
    /\ reg = RegInit
    /\ ph = PhInit
    /\ cd = CdInit(BaseName)
    /\ wb = WbIdle
    /\ mx = MxInit
    /\ cl = ClInit
    /\ pt = PtInit(FALSE)
    /\ fb = FtInit(NoFile)
    /\ sh = ShInit(NoWell)
    /\ \E hi \in UnixShards, lo \in UnixOffsets : si = SiInit(Wide(hi, lo))
    /\ NIdle

NextInstant == ShardIdOf \/ ShardNameOf \/ RangeOfName

SpecInstant == InitInstant /\ [][NextInstant]_vars

\* C32 as stated: the shard id s of an instant t has its low 17 bits zero
\* and s <= unix(t) < s + 2^17, and the range of the name hex(s >> 17) is
\* (s, s + 2^17).
C32_ShardIdBracketsUnixTime ==
    /\ si.pc # "t" =>
          /\ si.s.lo = 0
          /\ si.s.hi = si.t.hi
    /\ si.pc = "range" =>
          /\ si.r.s = si.s
          /\ si.r.e = [hi |-> si.s.hi + 1, lo |-> 0]

\* C32, with the seconds of the timestamp for unix(t): the shard id s of an
\* instant t has its low 17 bits zero and s <= sec(t) < s + 2^17, where
\* sec(t) = unix(t) + 62135596800 counts from year 1, and the range of the
\* name hex(s >> 17) is (s, s + 2^17).
C32_ShardIdBracketsTimestamp ==
    LET carry == (si.t.lo + 128768) \div 131072
    IN /\ si.pc # "t" =>
             /\ si.s.lo = 0
             /\ si.s.hi = si.t.hi + 474056 + carry
       /\ si.pc = "range" =>
             /\ si.r.s = si.s
             /\ si.r.e = [hi |-> si.s.hi + 1, lo |-> 0]

\* C32 witness: the last second of shard 769f2 went to that shard, and the
\* name gave back the shard's range
C32_Witness ==
    /\ si.pc = "range"
    /\ si.t.lo = 131072 - 128768 - 1
    /\ si.name = [neg |-> FALSE, digits |-> <<7, 6, 9, 15, 2>>]
    /\ si.r.s = si.s


(***************************************************************************)
(* pkg/flock: Flock and Funlock over fcntl(F_SETLK) record locks.          *)
(* The lock structure sets Start = 0 and Len = 0, so every lock covers the *)
(* whole file and the kernel keeps one lock per process for the file.      *)
(***************************************************************************)
XFrame == UNCHANGED <<bvars, pk, tm, reg, ph, cd, wb, mx, cl, pt, fb, sh, si, au, fc, us, pa>>

\* a lock of another process that a request of type typ by process p runs into
Conflicts(l, p, typ) ==
    \E q \in LockProcs \ {p} :
        \/ l.held[q] = "F_WRLCK"
        \/ typ = "F_WRLCK" /\ l.held[q] = "F_RDLCK"

\* syscall.FcntlFlock(fd, F_SETLK, &lock): never waits; a lock of the calling
\* process is replaced, whichever of its descriptors asks
FcntlSetlk(l, h, typ) ==
    IF typ = "F_UNLCK"
    THEN [l |-> [l EXCEPT !.held[ProcOf(h)] = "F_UNLCK"], errno |-> "0"]
    ELSE IF Conflicts(l, ProcOf(h), typ)
    THEN [l |-> l, errno |-> "EAGAIN"]
    ELSE [l |-> [l EXCEPT !.held[ProcOf(h)] = typ, !.by[ProcOf(h)] = h], errno |-> "0"]

FlockRawErrno(l, h, exclusive) ==
    LET r == FcntlSetlk(l, h, IF exclusive THEN "F_WRLCK" ELSE "F_RDLCK")
    IN  [l |-> r.l, err |-> IF r.errno = "0" THEN "nil" ELSE r.errno]

Flock(l, h, exclusive) ==
    LET r == FcntlSetlk(l, h, IF exclusive THEN "F_WRLCK" ELSE "F_RDLCK")
    IN  [l |-> r.l,
         err |-> IF r.errno = "0" THEN "nil"
                 ELSE IF r.errno = "EAGAIN" THEN "ErrLocked"
                 ELSE r.errno]

Funlock(l, h) ==
    LET r == FcntlSetlk(l, h, "F_UNLCK")
    IN  [l |-> r.l, err |-> IF r.errno = "0" THEN "nil" ELSE r.errno]

\* os.OpenFile of the file by process ProcOf(h)
OpenFile(h) ==
    /\ ~lk.open[h]
    /\ lk' = [lk EXCEPT !.open[h] = TRUE,
                        !.last = [op |-> "Open", h |-> h, excl |-> FALSE, err |-> "nil"]]
    /\ XFrame

FlockCall(h, exclusive) ==
    /\ lk.open[h]
    /\ lk' = [Flock(lk, h, exclusive).l EXCEPT
                 !.last = [op |-> "Flock", h |-> h, excl |-> exclusive,
                           err |-> Flock(lk, h, exclusive).err]]
    /\ XFrame

FunlockCall(h) ==
    /\ lk.open[h]
    /\ lk' = [Funlock(lk, h).l EXCEPT
                 !.last = [op |-> "Funlock", h |-> h, excl |-> FALSE,
                           err |-> Funlock(lk, h).err]]
    /\ XFrame

\* (*os.File).Close: closing any descriptor of the file drops the record
\* locks of the process on it
CloseFile(h) ==
    /\ lk.open[h]
    /\ lk' = [lk EXCEPT !.open[h] = FALSE,
                        !.held[ProcOf(h)] = "F_UNLCK",
                        !.last = [op |-> "Close", h |-> h, excl |-> FALSE, err |-> "nil"]]
    /\ XFrame

\* the state of the variables of the specifications above, before they start
PIdle ==
    /\ BIdle
    /\ pk = PkInit
    /\ tm = TmInit
    /\ reg = RegInit
    /\ ph = PhInit
    /\ cd = CdInit(BaseName)
    /\ wb = WbIdle
    /\ mx = MxInit
    /\ cl = ClInit
    /\ pt = PtInit(FALSE)
    /\ fb = FtInit(NoFile)
    /\ sh = ShInit(NoWell)
    /\ si = SiInit(Epoch)

InitLock ==
    /\ PIdle
    /\ NIdle

NextLock ==
    \/ \E h \in LockHandles : OpenFile(h)
    \/ \E h \in LockHandles, exclusive \in BOOLEAN : FlockCall(h, exclusive)
    \/ \E h \in LockHandles : FunlockCall(h)
    \/ \E h \in LockHandles : CloseFile(h)

SpecLock == InitLock /\ [][NextLock]_vars

\* the handle whose acquire set the exclusive lock that process q holds
ExclusiveHolder(g) ==
    /\ lk.open[g]
    /\ lk.held[ProcOf(g)] = "F_WRLCK"
    /\ lk.by[ProcOf(g)] = g

AFrame == UNCHANGED <<bvars, pk, tm, reg, ph, cd, wb, mx, cl, pt, fb, sh, si, lk, fc, us, pa>>

StatusOK == 200
StatusUnauthorized == 401
StatusUnprocessableEntity == 422
StatusLocked == 423
StatusInternalServerError == 500
Statuses == {StatusOK, StatusUnauthorized, StatusUnprocessableEntity, StatusLocked,
             StatusInternalServerError}

\* the customers that log in; the token the server issues names the customer
Customers == 1..NCalls

Did(op, status, err) == [op |-> op, status |-> status, err |-> err]

\* Client.Login with a numeric user; ok is the LoginStatus of a 200 answer and
\* token whether the answer carries a JWT
Login(user, status, ok, token) ==
    /\ au' =
        IF au.state \notin {"STATE_NEW", "STATE_LOGGED_OFF"}
        THEN [au EXCEPT !.last = Did("Login", 0, "Client not ready for login")]
        ELSE IF status = StatusLocked
        THEN [au EXCEPT !.last = Did("Login", status, "ErrAccountLocked")]
        ELSE IF status = StatusUnprocessableEntity
        THEN [au EXCEPT !.last = Did("Login", status, "ErrLoginFail")]
        ELSE IF status # StatusOK
        THEN [au EXCEPT !.last = Did("Login", status, "Invalid response")]
        ELSE IF ~ok
        THEN [au EXCEPT !.last = Did("Login", status, "Reason")]
        ELSE IF ~token
        THEN [au EXCEPT !.last = Did("Login", status, "Failed to retrieve JWT")]
        ELSE [au EXCEPT !.state = "STATE_AUTHED", !.jwt = user, !.custID = user,
                        !.last = Did("Login", status, "nil")]
    /\ AFrame

\* Client.staticRequest, under getStaticURL: PullTags, ListIndexers,
\* ListIndexerWells, GetWellTimeframe, TestLogin
StaticGet(status) ==
    /\ au' =
        IF au.state # "STATE_AUTHED"
        THEN [au EXCEPT !.last = Did("GET", 0, "ErrNoLogin")]
        ELSE IF status = StatusUnauthorized
        THEN [au EXCEPT !.state = "STATE_LOGGED_OFF",
                        !.last = Did("GET", status, "ErrNotAuthed")]
        ELSE IF status # StatusOK
        THEN [au EXCEPT !.last = Did("GET", status, "Bad Status")]
        ELSE [au EXCEPT !.last = Did("GET", status, "nil")]
    /\ AFrame

\* Client.methodStaticPushURL, under postStaticURL: SyncTags,
\* GetWellShardsInTimeframe.  It sends the request whatever the state is.
StaticPost(status) ==
    /\ au' =
        IF status = StatusUnauthorized
        THEN [au EXCEPT !.state = "STATE_LOGGED_OFF",
                        !.last = Did("POST", status, "ErrNotAuthed")]
        ELSE IF status # StatusOK
        THEN [au EXCEPT !.last = Did("POST", status, "Bad Status")]
        ELSE [au EXCEPT !.last = Did("POST", status, "nil")]
    /\ AFrame

\* Client.PushShard as far as the response goes: asyncPushShard turns every
\* status but 200 into a "Bad Status" error and PushShard returns it
PushShardResponse(status) ==
    /\ au' = [au EXCEPT !.last = Did("PushShard", status,
                                     IF status # StatusOK THEN "Bad Status" ELSE "nil")]
    /\ AFrame

\* Client.PullShard as far as the response goes
PullShardResponse(status) ==
    /\ au' = [au EXCEPT !.last = Did("PullShard", status,
                                     IF status # StatusOK THEN "Bad Status" ELSE "nil")]
    /\ AFrame

InitAuth ==
    /\ PIdle
    /\ NIdle

NextAuth ==
    \/ \E user \in Customers, status \in Statuses, ok \in BOOLEAN, token \in BOOLEAN :
          Login(user, status, ok, token)
    \/ \E status \in Statuses : StaticGet(status)
    \/ \E status \in Statuses : StaticPost(status)
    \/ \E status \in Statuses : PushShardResponse(status)
    \/ \E status \in Statuses : PullShardResponse(status)

SpecAuth == InitAuth /\ [][NextAuth]_vars

\* C34: a request that was answered with 401, whichever kind it is (static
\* GET or POST, shard push, shard pull), leaves the client logged off.
C34_UnauthorizedLogsOff ==
    (au.last.op \in {"GET", "POST", "PushShard", "PullShard"}
        /\ au.last.status = StatusUnauthorized)
    => au.state = "STATE_LOGGED_OFF"


(***************************************************************************)
(* The FTP backend's connections.  An operation dials and logs in through  *)
(* getFtpClient, works on the connection, and returns; fc.left counts the  *)
(* connections that are open and belong to no operation in flight.         *)
(***************************************************************************)
NFrame == UNCHANGED <<bvars, pk, tm, reg, ph, cd, wb, mx, cl, pt, fb, sh, si, lk, au, us, pa>>

FtpOps == {"Preflight", "ListIndexes", "ListIndexerWells", "GetWellTimeframe",
           "GetShardsInTimeframe", "UnpackShard", "PackShard", "GetTags", "SyncTags"}

\* the operations that call Quit on the connection before they return
Quitters == {"Preflight"}

\* the first half of an operation: getFtpClient.  A failed dial returns no
\* connection; a failed login returns the connection together with the error,
\* and every caller returns on the error without touching the connection.
FtpBegin(p, op, dial) ==
    /\ fc.pc[p] = "idle"
    /\ dial = "login failed" => fc.left < MaxConns
    /\ fc' = IF dial = "dial failed"
             THEN [fc EXCEPT !.last = [op |-> op, dial |-> dial, err |-> TRUE]]
             ELSE IF dial = "login failed"
             THEN [fc EXCEPT !.left = @ + 1,
                             !.last = [op |-> op, dial |-> dial, err |-> TRUE]]
             ELSE [fc EXCEPT !.pc[p] = op, !.conn[p] = TRUE,
                             !.last = [op |-> op, dial |-> dial, err |-> FALSE]]
    /\ NFrame

\* the second half: the operation's commands succeed or fail and it returns
FtpReturn(p, err) ==
    /\ fc.pc[p] # "idle"
    /\ fc.pc[p] \notin Quitters => fc.left < MaxConns
    /\ fc' = [fc EXCEPT !.pc[p] = "idle", !.conn[p] = FALSE,
                        !.left = IF fc.pc[p] \in Quitters THEN @ ELSE @ + 1,
                        !.last = [op |-> fc.pc[p], dial |-> "returned", err |-> err]]
    /\ NFrame

\* a connection nothing refers to any more is closed by the runtime when the
\* collector gets to it, or by the server when it has been idle for too long
Reclaim ==
    /\ fc.left > 0
    /\ fc' = [fc EXCEPT !.left = @ - 1,
                        !.last = [op |-> "none", dial |-> "reclaimed", err |-> FALSE]]
    /\ NFrame

InitConns ==
    /\ PIdle
    /\ NIdle

NextConns ==
    \/ \E p \in 1..NGoroutines, op \in FtpOps,
          dial \in {"dial failed", "login failed", "ok"} : FtpBegin(p, op, dial)
    \/ \E p \in 1..NGoroutines, err \in BOOLEAN : FtpReturn(p, err)
    \/ Reclaim

SpecConns == InitConns /\ [][NextConns]_vars

OpenConns == Cardinality({p \in 1..NGoroutines : fc.conn[p]}) + fc.left
InFlight == Cardinality({p \in 1..NGoroutines : fc.pc[p] # "idle"})

\* C35: when an operation of the FTP backend returns, with success or with an
\* error, the connection it dialed has been closed: a step in which an
\* operation returns leaves no more connections open without an operation
\* than there were, and the open connections never outnumber the operations
\* in flight.
C35_EveryOperationQuits ==
    [][/\ fc'.last.dial \in {"returned", "login failed"} => fc'.left <= fc.left
       /\ OpenConns' <= InFlight']_vars


(***************************************************************************)
(* Backend: a pull against the pushes in flight.                           *)
(***************************************************************************)
\* call p is an UnpackShard that has made its directory and has not returned
WritingInto(p, d) ==
    /\ calls[p].op = "unpack"
    /\ calls[p].pc \in {"unpack", "remove", "exit"}
    /\ calls[p].dir = d

\* call p is a PackShard that has found its directory and reads from it
ReadingFrom(p, d) ==
    /\ calls[p].op = "pack"
    /\ calls[p].pc = "pack"
    /\ calls[p].dir = d

\* C36: PackShard never reads a shard directory while an UnpackShard still in
\* flight is writing into that directory, also when the push was redirected
\* to a collision-suffixed directory named like the pulled shard.
C36_PullNeverReadsPartialShard ==
    \A p \in Procs, q \in Procs, d \in Dirs :
        ~(ReadingFrom(p, d) /\ WritingInto(q, d))


(***************************************************************************)
(* The local backend's UnpackShard and the tag dictionary of the indexer.  *)
(***************************************************************************)
UFrame == UNCHANGED <<bvars, pk, tm, reg, ph, cd, wb, mx, cl, pt, fb, sh, si, lk, au, fc, pa>>

\* a handler whose tag update merges nothing
HandleTagUpdateDry(d, s) == [d |-> d, err |-> MergeRes(d, s).err]

\* handler.HandleTagUpdate between GetTagMan and ReleaseTagMan: tm.Merge(tgs)
HandleTagUpdate(d, s) == [d |-> MergeRes(d, s).d, err |-> MergeRes(d, s).err]

\* UnpackShard up to the Unpack: EnterUpload, the directory, NewUnpacker
UnpackShardBegin(ok) ==
    /\ us.res = "enter"
    /\ us' = IF ok THEN [us EXCEPT !.dir = TRUE, !.res = "unpack"]
             ELSE [us EXCEPT !.res = "err"]
    /\ UFrame

\* Unpack reads the tagsupdate entry: updateTags, HandleTagUpdate.  getErr and
\* relErr are the errors of GetTagMan and ReleaseTagMan; on an error Unpack
\* returns and UnpackShard removes the shard directory.
UnpackTagUpdate(getErr, relErr) ==
    /\ us.res = "unpack"
    /\ us.pos < us.n
    /\ us.pos + 1 = us.tpos
    /\ LET r == HandleTagUpdate(us.d, us.s) IN
         us' = IF getErr
               THEN [us EXCEPT !.res = "err", !.dir = FALSE]
               ELSE IF r.err \/ relErr
               THEN [us EXCEPT !.d = r.d, !.ran = TRUE, !.res = "err", !.dir = FALSE]
               ELSE [us EXCEPT !.d = r.d, !.ran = TRUE, !.pos = @ + 1]
    /\ UFrame

\* Unpack reads any other entry: FilenameToType, hitType, HandleFile
UnpackFile(ok) ==
    /\ us.res = "unpack"
    /\ us.pos < us.n
    /\ us.pos + 1 # us.tpos
    /\ us' = IF ok THEN [us EXCEPT !.pos = @ + 1]
             ELSE [us EXCEPT !.res = "err", !.dir = FALSE]
    /\ UFrame

\* the transfer breaks or is cancelled: the next read of Unpack fails
TransferBreaks ==
    /\ us.res = "unpack"
    /\ us' = [us EXCEPT !.res = "err", !.dir = FALSE]
    /\ UFrame

\* the end of the stream: allFilesHit(false), then ExitUpload
UnpackShardEnd(complete) ==
    /\ us.res = "unpack"
    /\ us.pos = us.n
    /\ us' = IF complete THEN [us EXCEPT !.res = "nil"]
             ELSE [us EXCEPT !.res = "err", !.dir = FALSE]
    /\ UFrame

\* the dictionaries a push can meet: a new one, and one that holds a = 1
Dictionaries == {TmNew, MergeRes(TmNew, <<TagPair("a", 1)>>).d}

InitUnpackShard ==
    /\ PIdle
    /\ lk = LkInit
    /\ au = AuInit
    /\ fc = FcInit
    /\ pa = PaInit(<<"w">>, <<"s">>)
    /\ \E d0 \in Dictionaries, n \in 1..(NEntries + 1), s \in FtpLists :
         \E tpos \in 0..n : us = UsInit(d0, n, tpos, s)

NextUnpackShard ==
    \/ \E ok \in BOOLEAN : UnpackShardBegin(ok)
    \/ \E getErr \in BOOLEAN, relErr \in BOOLEAN : UnpackTagUpdate(getErr, relErr)
    \/ \E ok \in BOOLEAN : UnpackFile(ok)
    \/ TransferBreaks
    \/ \E complete \in BOOLEAN : UnpackShardEnd(complete)

SpecUnpackShard == InitUnpackShard /\ [][NextUnpackShard]_vars

YFrame == UNCHANGED <<bvars, pk, tm, reg, ph, cd, wb, mx, cl, pt, fb, sh, si, lk, au, fc, us>>

\* filestore.basedir, and the indexer directory of customer 1
Basedir == <<"root">>
IndexerDirOf == Basedir \o <<"1", "idx">>

\* what is on disk before the call: the directories of two customers
OnDisk == {<<>>, Basedir, Basedir \o <<"1">>, IndexerDirOf, IndexerDirOf \o <<"w">>,
           Basedir \o <<"2">>, Basedir \o <<"2", "idx">>}

\* the elements a string can be made of
Elements == {".", "..", "w", "s"}
Strings == {<<a>> : a \in Elements} \cup {<<a, b>> : a \in Elements, b \in Elements}

Front(p) == SubSeq(p, 1, Len(p) - 1)

\* filepath.Clean of a rooted path: "." dropped, ".." drops the element before
RECURSIVE CleanRooted(_, _)
CleanRooted(done, rest) ==
    IF rest = <<>> THEN done
    ELSE IF Head(rest) = "." THEN CleanRooted(done, Tail(rest))
    ELSE IF Head(rest) = ".."
    THEN CleanRooted(IF done = <<>> THEN <<>> ELSE Front(done), Tail(rest))
    ELSE CleanRooted(Append(done, Head(rest)), Tail(rest))

\* filepath.Clean of a relative path: a ".." with nothing before it stays
RECURSIVE CleanRelative(_, _)
CleanRelative(done, rest) ==
    IF rest = <<>> THEN done
    ELSE IF Head(rest) = "." THEN CleanRelative(done, Tail(rest))
    ELSE IF Head(rest) = ".."
    THEN CleanRelative(IF done = <<>> \/ done[Len(done)] = ".."
                       THEN Append(done, "..") ELSE Front(done), Tail(rest))
    ELSE CleanRelative(Append(done, Head(rest)), Tail(rest))

\* filepath.Join(indexerDir, well, shard)
JoinShardDir(well, shard) == CleanRooted(<<>>, IndexerDirOf \o well \o shard)

\* fmt.Sprintf("%s.%d", base, 1): the last element gets the suffix
WithSuffix(p) ==
    IF p = <<>> THEN <<".1">>
    ELSE Append(Front(p),
                CASE p[Len(p)] = "w" -> "w.1"
                  [] p[Len(p)] = "s" -> "s.1"
                  [] p[Len(p)] = "idx" -> "idx.1"
                  [] p[Len(p)] = "root" -> "root.1"
                  [] p[Len(p)] = "1" -> "1.1"
                  [] OTHER -> "2.1")

\* strings.TrimLeft(p, "./") on a cleaned relative path: the leading ".."
\* elements go
RECURSIVE TrimLeftDots(_)
TrimLeftDots(p) ==
    IF p # <<>> /\ Head(p) \in {".", ".."} THEN TrimLeftDots(Tail(p)) ELSE p

\* clean: the directory and the file HandleFile uses, both single elements
clean(p) ==
    LET q == CleanRelative(<<>>, TrimLeftDots(CleanRelative(<<>>, p)))
    IN  IF q = <<>> THEN [d |-> <<>>, f |-> <<".">>]
        ELSE [d |-> IF Len(q) > 1 THEN <<q[Len(q) - 1]>> ELSE <<>>, f |-> <<q[Len(q)]>>]

\* Ftype.Filepath(up.id): the id with the extension of the type, or the two
\* files inside <id>.accel; the id is the shard string, slashes and all
Placement(shard, inAccel) ==
    IF inAccel THEN Front(shard) \o <<"id.accel", "keys">>
    ELSE Front(shard) \o <<"id.store">>

Prefixes(p) == {SubSeq(p, 1, k) : k \in 0..Len(p)}

\* UnpackShard up to the Unpack: the collision loop and os.MkdirAll, which
\* makes every missing directory on the way
ResolveAndMkdir ==
    /\ pa.pc = "enter"
    /\ LET base == JoinShardDir(pa.well, pa.shard)
           shardDir == IF base \in OnDisk THEN WithSuffix(base) ELSE base
       IN pa' = [pa EXCEPT !.sdir = shardDir,
                           !.touched = Prefixes(shardDir) \ OnDisk,
                           !.pc = "unpack"]
    /\ YFrame

\* handler.HandleFile for an entry of the stream
HandleFileAt(inAccel) ==
    /\ pa.pc = "unpack"
    /\ pa.n < NEntries
    /\ LET c == clean(Placement(pa.shard, inAccel))
       IN pa' = [pa EXCEPT !.n = @ + 1,
                           !.touched = @ \cup
                               IF c.f = <<".">> THEN {}
                               ELSE {pa.sdir \o c.d, pa.sdir \o c.d \o c.f}]
    /\ YFrame

\* Unpack returns: nil, or an error and os.RemoveAll(shardDir)
UnpackReturns(ok) ==
    /\ pa.pc = "unpack"
    /\ pa' = IF ok THEN [pa EXCEPT !.pc = "nil"]
             ELSE [pa EXCEPT !.pc = "err", !.touched = @ \cup {pa.sdir}]
    /\ YFrame

InitPaths ==
    /\ PIdle
    /\ lk = LkInit
    /\ au = AuInit
    /\ fc = FcInit
    /\ us = UsInit(TmNew, 0, 0, <<>>)
    /\ \E well \in Strings, shard \in Strings : pa = PaInit(well, shard)

NextPaths ==
    \/ ResolveAndMkdir
    \/ \E inAccel \in BOOLEAN : HandleFileAt(inAccel)
    \/ \E ok \in BOOLEAN : UnpackReturns(ok)

SpecPaths == InitPaths /\ [][NextPaths]_vars

Beneath(p) ==
    /\ Len(p) > Len(IndexerDirOf)
    /\ SubSeq(p, 1, Len(IndexerDirOf)) = IndexerDirOf

\* C38: every file or directory that UnpackShard creates, overwrites or
\* removes lies beneath <root>/<cid>/<indexer>/, whatever the well and shard
\* strings and the entries of the stream are.
C38_EffectsStayBeneathIndexer ==
    \A p \in pa.touched : Beneath(p)


(***************************************************************************)
(* The Unpacker on a stream that any peer may have written: the entries    *)
(* are well-formed tar entries in any number and order.                    *)
(***************************************************************************)
\* the streams a peer can send: every entry carries the name of some type
Streams ==
    SeqsUpTo({[name |-> Filename(tp, BaseName), data |-> Content(tp)] : tp \in Ftypes},
             MaxStream)

InitStream ==
    /\ BIdle
    /\ pk = PkInit
    /\ tm = TmInit
    /\ reg = RegInit
    /\ ph = PhInit
    /\ \E stream \in Streams :
         cd = [CdInit(BaseName) EXCEPT !.out = stream, !.pipe = "weof", !.closed = "Close"]
    /\ wb = WbIdle
    /\ mx = MxInit
    /\ OIdle

NextStream ==
    \/ UnpackNext
    \/ UnpackEnd

SpecStream == InitStream /\ [][NextStream]_vars

\* C39: during one Unpack each handler callback is invoked at most once per
\* semantic type: HandleTagUpdate at most once, and HandleFile at most once
\* for the placement of each type.
C39_HandlersOncePerType ==
    /\ cd.ntags <= 1
    /\ \A i \in DOMAIN cd.got, j \in DOMAIN cd.got :
          cd.got[i].path = cd.got[j].path => i = j


\* the types an add on a packer with the tracker hit would be accepted for
Acceptable(hit) == {tp \in Ftypes : ~HitTypeErr(hit, tp)}

\* C40: an add that the Packer rejects because its type was added before or
\* because another accelerator form was added leaves the tracker as it was:
\* the adds that would be accepted are the same after the call as before it.
C40_RejectedAddKeepsTracker ==
    [][(/\ cd'.out = cd.out
        /\ cd'.last.err
        /\ cd'.last.tp \in Ftypes
        /\ HitTypeErr(cd.hit, cd'.last.tp)
        /\ cd'.pos = cd.pos /\ cd'.closed = cd.closed /\ cd'.pipe = cd.pipe)
       => Acceptable(cd'.hit) = Acceptable(cd.hit)]_vars

====
